---- MODULE Spec2Model ----
(***************************************************************************)
(* A model of gocc, a compiler for a small subset of C written in Go.      *)
(*                                                                         *)
(*   main      src/main.go:19-29      tokenize -> parse -> gen            *)
(*   tokenize  src/lexer.go           source bytes -> token list          *)
(*   parse     src/parser.go:189-739  tokens -> typed AST + locals        *)
(*   addtype   src/types.go           type annotation                     *)
(*   gen       src/unnamed/part_002:108-296  AST -> x86-64 (AT&T)         *)
(*                                                                         *)
(* The compiler is one sequential process.  Its state is the position in   *)
(* main, the tokenizer's scan position and token list, the parser's token  *)
(* cursor, statement list and locals list, the code generator's label      *)
(* counter and the two output streams.  The emitted program is run on a    *)
(* small x86-64 machine (RAX, RDI, RSP, RBP, memory) so that statements    *)
(* about what the emitted code computes can be checked.                    *)
(***************************************************************************)
EXTENDS Integers, Sequences, FiniteSets, TLC

VARIABLES
    source,     \* main.go:17   the source string, a sequence of bytes
    pc,         \* position in main(): "tokenize", "parse", "gen", "exited"
    p,          \* lexer.go:86  scan position (0-based, as in the code)
    tokens,     \* lexer.go:84  the list hanging off head.next, in order
    curr,       \* lexer.go:85  "head", "tok" (the last token) or "nil"
    token,      \* parser.go:400 parse()'s cursor: index into tokens
    body,       \* parser.go:401 statements parsed so far (head.next ...)
    locals,     \* parser.go:247 the locals list, head first
    stackSize,  \* parser.go:396 Function.stackSize
    offsets,    \* parser.go:242 Object.offset, by object id
    genpos,     \* part_002:163 index of the next top-level statement of gen
    counter,    \* part_002:124 the variable i captured by makecounter
    stdout,     \* the instructions and labels printed so far
    stderr,     \* the diagnostics printed so far
    exitCode,   \* -1 while the compiler runs
    cpu,        \* the machine that runs the emitted program
    marks,      \* ghost: the indices of stdout at which a statement begins or ends
    argOrder    \* how this build orders a call and a variable read in one
                \* argument list: "in_order" or "calls_first"

vars == <<source, pc, p, tokens, curr, token, body, locals, stackSize, offsets,
          genpos, counter, stdout, stderr, exitCode, cpu, marks, argOrder>>

(***************************************************************************)
(* Bytes.  A byte is a one-character string.                               *)
(***************************************************************************)
Digits == <<"0", "1", "2", "3", "4", "5", "6", "7", "8", "9">>

Letters == {"a", "b", "c", "d", "e", "f", "g", "h", "i", "j", "k", "l", "m",
            "n", "o", "p", "q", "r", "s", "t", "u", "v", "w", "x", "y", "z",
            "A", "B", "C", "D", "E", "F", "G", "H", "I", "J", "K", "L", "M",
            "N", "O", "P", "Q", "R", "S", "T", "U", "V", "W", "X", "Y", "Z"}

\* unicode.IsSpace on a byte below 0x80
IsSpace(c) == c \in {" ", "\t", "\n", "\r", "\f"}

\* lexer.go:251 (and unicode.IsDigit on a byte)
isDigit(c) == \E i \in 1..10 : Digits[i] = c

\* lexer.go:247
isLetter(c) == c = "_" \/ c \in Letters

DigitVal(c) == (CHOOSE i \in 1..10 : Digits[i] = c) - 1

RECURSIVE Cat(_)
\* source[begin:end] as a string
Cat(s) == IF s = <<>> THEN "" ELSE Head(s) \o Cat(Tail(s))

\* source[b:e], 0-based and half-open as a Go slice expression
Slice(b, e) == SubSeq(source, b + 1, e)

(***************************************************************************)
(* Diagnostics: locate(begin, length) followed by a message on stderr.     *)
(***************************************************************************)
\* main.go:9-15   the caret line underlines max(length, 1) columns at begin
locate(begin, length) ==
    [begin |-> begin, carets |-> IF length = 0 THEN 1 ELSE length]

Diag(msg, begin, length) ==
    [msg |-> msg, begin |-> locate(begin, length).begin,
     carets |-> locate(begin, length).carets]

\* A slip in NewToken: the end offset is taken for the length.
NewTokenEndForLength(kind, begin, end) ==
    [kind |-> kind, value |-> 0, begin |-> begin, length |-> end,
     lexeme |-> Cat(Slice(begin, end))]

(***************************************************************************)
(* Tokenizer (src/lexer.go)                                                *)
(***************************************************************************)
\* lexer.go:54-63
NewToken(kind, begin, end) ==
    [kind |-> kind, value |-> 0, begin |-> begin, length |-> end - begin,
     lexeme |-> Cat(Slice(begin, end))]

\* A slip in the loop of lookahead: it compares nothing.
lookaheadLoopBlind(q, expected, i, toklen) == toklen

RECURSIVE lookaheadLoop(_, _, _, _)
\* lexer.go:70-78  the loop of lookahead
lookaheadLoop(q, expected, i, toklen) ==
    IF i > Len(expected) THEN toklen
    ELSE IF source[q + i + 1] = expected[i]
         THEN lookaheadLoop(q, expected, i + 1, toklen + 1)
         ELSE toklen

\* A slip in the bound of lookahead: one byte too early.
lookaheadEarly(q, expected) ==
    IF q + Len(expected) + 1 >= Len(source) THEN -1
    ELSE lookaheadLoop(q, expected, 1, 1)

\* lexer.go:65-79
lookahead(q, expected) ==
    IF q + Len(expected) >= Len(source) THEN -1
    ELSE lookaheadLoop(q, expected, 1, 1)

\* What one operator case of the switch does: the kind of the token it
\* appends and the number of bytes it advances p by.  A case with an empty
\* body appends nothing and leaves p alone.
Emit(kind, n) == [kind |-> kind, n |-> n]
Nothing == [kind |-> "", n |-> 0]

\* lexer.go:105-192  the cases '+', '-', '*', '/', '=', '!', '<', '>', '&'
OperatorCase(c, q) ==
    CASE c = "+" ->
           IF lookahead(q, <<"+">>) = 2 THEN Nothing
           ELSE IF lookahead(q, <<"=">>) = 2 THEN Nothing
           ELSE IF lookahead(q, <<>>) = 1 THEN Emit("ADD", 1)
           ELSE Nothing
      [] c = "-" ->
           IF lookahead(q, <<">">>) = 2 THEN Nothing
           ELSE IF lookahead(q, <<"-">>) = 2 THEN Nothing
           ELSE IF lookahead(q, <<"=">>) = 2 THEN Nothing
           ELSE IF lookahead(q, <<>>) = 1 THEN Emit("SUB", 1)
           ELSE Nothing
      [] c = "*" ->
           IF lookahead(q, <<"=">>) = 2 THEN Nothing
           ELSE IF lookahead(q, <<>>) = 1 THEN Emit("ASTERISK", 1)
           ELSE Nothing
      [] c = "/" ->
           IF lookahead(q, <<"=">>) = 2 THEN Nothing
           ELSE IF lookahead(q, <<>>) = 1 THEN Emit("DIV", 1)
           ELSE Nothing
      [] c = "=" ->
           IF lookahead(q, <<"=">>) = 2 THEN Emit("EQL", 2)
           ELSE IF lookahead(q, <<>>) = 1 THEN Emit("ASG", 1)
           ELSE Nothing
      [] c = "!" ->
           IF lookahead(q, <<"=">>) = 2 THEN Emit("NEQ", 2)
           ELSE IF lookahead(q, <<>>) = 1 THEN Emit("NOT", 1)
           ELSE Nothing
      [] c = "<" ->
           IF lookahead(q, <<"<", "=">>) = 3 THEN Nothing
           ELSE IF lookahead(q, <<"<">>) = 2 THEN Nothing
           ELSE IF lookahead(q, <<"=">>) = 2 THEN Emit("LEQ", 2)
           ELSE IF lookahead(q, <<>>) = 1 THEN Emit("LSS", 1)
           ELSE Nothing
      [] c = ">" ->
           IF lookahead(q, <<">", "=">>) = 3 THEN Nothing
           ELSE IF lookahead(q, <<">">>) = 2 THEN Nothing
           ELSE IF lookahead(q, <<"=">>) = 2 THEN Emit("GEQ", 2)
           ELSE IF lookahead(q, <<>>) = 1 THEN Emit("GTR", 1)
           ELSE Nothing
      [] c = "&" ->
           IF lookahead(q, <<"&">>) = 2 THEN Nothing
           ELSE IF lookahead(q, <<"=">>) = 2 THEN Nothing
           ELSE IF lookahead(q, <<>>) = 1 THEN Emit("AND", 1)
           ELSE Nothing

IsOperatorByte(c) == c \in {"+", "-", "*", "/", "=", "!", "<", ">", "&"}

\* lexer.go:193-216  the single-byte cases that never look ahead
PunctKind(c) ==
    CASE c = "(" -> "LPAREN"
      [] c = ")" -> "RPAREN"
      [] c = "{" -> "LBRACE"
      [] c = "}" -> "RBRACE"
      [] c = ";" -> "SEMI"
      [] c = "," -> "COMMA"

IsPunctByte(c) == c \in {"(", ")", "{", "}", ";", ","}

\* lexer.go:238-245
keywords == [return |-> "RETURN", if |-> "IF", else |-> "ELSE",
             for |-> "FOR", while |-> "WHILE", int |-> "INT"]

RECURSIVE ScanDigits(_)
\* lexer.go:93-95  advance over a run of digits
ScanDigits(q) ==
    IF q < Len(source) /\ isDigit(source[q + 1]) THEN ScanDigits(q + 1) ELSE q

RECURSIVE ScanIdent(_)
\* lexer.go:219-221  advance over letters and digits
ScanIdent(q) ==
    IF q < Len(source) /\ (isLetter(source[q + 1]) \/ isDigit(source[q + 1]))
    THEN ScanIdent(q + 1)
    ELSE q

RECURSIVE StripZeros(_)
StripZeros(ds) ==
    IF ds # <<>> /\ Head(ds) = "0" THEN StripZeros(Tail(ds)) ELSE ds

RECURSIVE DigitsGreater(_, _)
\* two digit strings of equal length, compared as numbers
DigitsGreater(a, b) ==
    IF a = <<>> THEN FALSE
    ELSE IF DigitVal(Head(a)) # DigitVal(Head(b))
         THEN DigitVal(Head(a)) > DigitVal(Head(b))
         ELSE DigitsGreater(Tail(a), Tail(b))

\* math.MaxInt64 = 9223372036854775807, the largest value strconv.Atoi accepts
MaxInt64Digits ==
    <<"9", "2", "2", "3", "3", "7", "2", "0", "3", "6", "8", "5", "4", "7",
      "7", "5", "8", "0", "7">>

\* strconv.Atoi reports "value out of range" for a digit string above MaxInt64
AtoiOutOfRange(ds) ==
    LET s == StripZeros(ds) IN
    \/ Len(s) > Len(MaxInt64Digits)
    \/ Len(s) = Len(MaxInt64Digits) /\ DigitsGreater(s, MaxInt64Digits)

RECURSIVE AtoiValue(_, _)
\* the decimal interpretation of a digit string
AtoiValue(ds, acc) ==
    IF ds = <<>> THEN acc
    ELSE AtoiValue(Tail(ds), acc * 10 + DigitVal(Head(ds)))

(***************************************************************************)
(* Types (src/types.go)                                                    *)
(***************************************************************************)
\* a nil *Type
NoType == [kind |-> "nil"]

\* types.go:32
tpint == [kind |-> "TPINT"]

\* types.go:25-30
ptrto(base) == [kind |-> "TPPTR", base |-> base]

\* types.go:21-23
isint(t) == t.kind = "TPINT"

\* t.base != nil: only ptrto sets base
HasBase(t) == t.kind = "TPPTR"

(***************************************************************************)
(* AST nodes and locals (src/parser.go:213-391)                            *)
(***************************************************************************)
\* a nil *Node
Nil == [kind |-> "nil"]

NoErr == [msg |-> "", begin |-> 0, carets |-> 0]

\* the diagnostic of an error reported at a token (an index into tokens)
ErrAt(msg, t) == Diag(msg, tokens[t].begin, tokens[t].length)

\* parser.go:306-311  every field but kind and token is zero
NewNode(kind, t) ==
    [kind |-> kind, token |-> t, lhs |-> Nil, rhs |-> Nil, tp |-> NoType,
     condition |-> Nil, thenBranch |-> Nil, elseBranch |-> Nil,
     initializer |-> Nil, increment |-> Nil, body |-> <<>>,
     variable |-> 0, value |-> 0]

\* parser.go:313-318
NewBinary(kind, lhs, rhs, t) ==
    [NewNode(kind, t) EXCEPT !.lhs = lhs, !.rhs = rhs]

\* parser.go:320-324
NewNumber(value, t) == [NewNode("NodeNum", t) EXCEPT !.value = value]

\* parser.go:381-385
NewUnary(kind, e, t) == [NewNode(kind, t) EXCEPT !.lhs = e]

\* parser.go:387-391  variable is the id of the Object
NewVar(variable, t) == [NewNode("NodeVar", t) EXCEPT !.variable = variable]

\* A slip in NewLvar: the new local goes to the tail of the list.
NewLvarAtTail(name, tp, locs) ==
    locs \o <<[id |-> Len(locs) + 1, name |-> name, tp |-> tp]>>

\* parser.go:251-259  insert at the head of the list; an Object is named by
\* its id, the number of Objects created up to and including it
NewLvar(name, tp, locs) ==
    <<[id |-> Len(locs) + 1, name |-> name, tp |-> tp]>> \o locs

RECURSIVE findVarFrom(_, _, _)
findVarFrom(lexeme, locs, i) ==
    IF i > Len(locs) THEN 0
    ELSE IF locs[i].name = lexeme THEN locs[i].id
    ELSE findVarFrom(lexeme, locs, i + 1)

\* A slip in findVar: the newest local, whatever its name.
findVarNewest(t, locs) == IF locs = <<>> THEN 0 ELSE locs[1].id

\* A slip in findVar: it never finds the name.
findVarNever(t, locs) == 0

\* parser.go:262-269  the first match from the head; 0 is nil
findVar(t, locs) == findVarFrom(tokens[t].lexeme, locs, 1)

\* the Object with the given id
Object(id, locs) == locs[Len(locs) - id + 1]

(***************************************************************************)
(* Type annotation (src/types.go:34-69)                                    *)
(***************************************************************************)
Typed(node) == [err |-> NoErr, node |-> node]
TypeErr(e) == [err |-> e, node |-> Nil]

ChildSlots == <<"lhs", "rhs", "condition", "thenBranch", "elseBranch",
                "initializer", "increment">>

\* A slip in the dereference case: the operand's own type, not its base.
addtypeDerefKeep(node) == Typed([node EXCEPT !.tp = node.lhs.tp])

\* types.go:60-67
addtypeDeref(node) ==
    IF node.lhs.tp.kind # "TPPTR"
    THEN TypeErr(ErrAt("invalid pointer dereference", node.token))
    ELSE Typed([node EXCEPT !.tp = node.lhs.tp.base])

\* A slip in the variable case: every variable is an int.
addtypeVarInt(node, locs) == Typed([node EXCEPT !.tp = tpint])

\* types.go:55-56
addtypeVar(node, locs) ==
    Typed([node EXCEPT !.tp = Object(node.variable, locs).tp])

\* types.go:48-68  the switch, on a node whose children are annotated
addtypeKind(node, locs) ==
    CASE node.kind \in {"NodeAdd", "NodeSub", "NodeMul", "NodeDiv", "NodeNeg",
                        "NodeAsg"} ->
           Typed([node EXCEPT !.tp = node.lhs.tp])
      [] node.kind \in {"NodeEql", "NodeNeq", "NodeLss", "NodeLeq", "NodeNum"} ->
           Typed([node EXCEPT !.tp = tpint])
      [] node.kind = "NodeVar" -> addtypeVar(node, locs)
      [] node.kind = "NodeAddr" ->
           Typed([node EXCEPT !.tp = ptrto(node.lhs.tp)])
      [] node.kind = "NodeDeref" -> addtypeDeref(node)
      [] OTHER -> Typed(node)

RECURSIVE addtype(_, _), addtypeSlots(_, _, _), addtypeBody(_, _, _)

\* types.go:38-44  the child slots, in the order of the code
addtypeSlots(node, i, locs) ==
    IF i > Len(ChildSlots) THEN Typed(node)
    ELSE LET f == ChildSlots[i]
             c == addtype(node[f], locs)
         IN  IF c.err # NoErr THEN c
             ELSE addtypeSlots([node EXCEPT ![f] = c.node], i + 1, locs)

\* types.go:45-47  the statements of a block
addtypeBody(node, i, locs) ==
    IF i > Len(node.body) THEN Typed(node)
    ELSE LET c == addtype(node.body[i], locs)
         IN  IF c.err # NoErr THEN c
             ELSE addtypeBody([node EXCEPT !.body[i] = c.node], i + 1, locs)

\* types.go:34-69
addtype(node, locs) ==
    IF node.kind = "nil" THEN Typed(node)
    ELSE IF node.tp # NoType THEN Typed(node)
    ELSE LET s == addtypeSlots(node, 1, locs)
         IN  IF s.err # NoErr THEN s
             ELSE LET b == addtypeBody(s.node, 1, locs)
                  IN  IF b.err # NoErr THEN b
                      ELSE addtypeKind(b.node, locs)

(***************************************************************************)
(* Parser: expressions (src/parser.go:326-379, 597-739)                    *)
(*                                                                         *)
(* A parsing function takes the index t of its first token and the locals  *)
(* list, and returns the node and the index of the token after it (rest),  *)
(* or the diagnostic with which the process exits.  The code that follows  *)
(* a call in the source is an operator of its own here, which takes the    *)
(* result of the call.                                                     *)
(***************************************************************************)
Parsed(node, rest) == [err |-> NoErr, node |-> node, rest |-> rest]
ParseErr(e) == [err |-> e, node |-> Nil, rest |-> 0]
Failed(r) == r.err # NoErr

\* NewUnary(kind, expr(&token, ...), token) and its like pass the variable
\* token next to a call that moves it.  Go orders the calls of an
\* expression but not a variable read against them, so the node's token is
\* the one before the call or the one after it, the same way all through
\* one build.
TokenArg(before, after) == IF argOrder = "in_order" THEN before ELSE after

\* parser.go:415-417
equal(t, lexeme) == tokens[t].lexeme = lexeme

\* A slip in skip: the diagnostic is at the token before the offending one.
skipBlamesLast(t, lexeme) ==
    IF ~equal(t, lexeme)
    THEN ParseErr(ErrAt("expected \"" \o lexeme \o "\"", IF t > 1 THEN t - 1 ELSE t))
    ELSE Parsed(Nil, t + 1)

\* parser.go:419-426
skip(t, lexeme) ==
    IF ~equal(t, lexeme)
    THEN ParseErr(ErrAt("expected \"" \o lexeme \o "\"", t))
    ELSE Parsed(Nil, t + 1)

\* r, then skip(token, lexeme) on the token r left
Expect(r, lexeme) ==
    IF Failed(r) THEN r
    ELSE IF Failed(skip(r.rest, lexeme))
    THEN [r EXCEPT !.err = skip(r.rest, lexeme).err]
    ELSE [r EXCEPT !.rest = skip(r.rest, lexeme).rest]

\* A slip in NewAdd: num + ptr is not swapped.
NewAddTypedNoSwap(l, r, t) ==
    IF l.err # NoErr THEN l
    ELSE IF r.err # NoErr THEN r
    ELSE IF isint(l.node.tp) /\ isint(r.node.tp)
    THEN Typed(NewBinary("NodeAdd", l.node, r.node, t))
    ELSE IF HasBase(l.node.tp) /\ HasBase(r.node.tp)
    THEN TypeErr(ErrAt("invalid opreands", t))
    ELSE Typed(NewBinary("NodeAdd", l.node,
                 NewBinary("NodeMul", r.node, NewNumber(8, t), t), t))

\* parser.go:334-350  NewAdd after its two calls of addtype
NewAddTyped(l, r, t) ==
    IF l.err # NoErr THEN l
    ELSE IF r.err # NoErr THEN r
    ELSE IF isint(l.node.tp) /\ isint(r.node.tp)
    THEN Typed(NewBinary("NodeAdd", l.node, r.node, t))
    ELSE IF HasBase(l.node.tp) /\ HasBase(r.node.tp)
    THEN TypeErr(ErrAt("invalid opreands", t))
    ELSE IF ~HasBase(l.node.tp) /\ HasBase(r.node.tp)
    THEN Typed(NewBinary("NodeAdd", r.node,
                 NewBinary("NodeMul", l.node, NewNumber(8, t), t), t))
    ELSE Typed(NewBinary("NodeAdd", l.node,
                 NewBinary("NodeMul", r.node, NewNumber(8, t), t), t))

\* parser.go:331-351
NewAdd(lhs, rhs, t, locs) ==
    NewAddTyped(addtype(lhs, locs), addtype(rhs, locs), t)

\* parser.go:357-378  NewSub after its two calls of addtype
NewSubTyped(l, r, t, locs) ==
    IF l.err # NoErr THEN l
    ELSE IF r.err # NoErr THEN r
    ELSE IF isint(l.node.tp) /\ isint(r.node.tp)
    THEN Typed(NewBinary("NodeSub", l.node, r.node, t))
    ELSE IF HasBase(l.node.tp) /\ isint(r.node.tp)
    THEN Typed([NewBinary("NodeSub", l.node,
                    addtype(NewBinary("NodeMul", r.node, NewNumber(8, t), t),
                            locs).node, t)
                EXCEPT !.tp = l.node.tp])
    ELSE IF isint(l.node.tp) /\ HasBase(r.node.tp)
    THEN TypeErr(ErrAt("invalid opreands", t))
    ELSE Typed(NewBinary("NodeDiv",
                 [NewBinary("NodeSub", l.node, r.node, t) EXCEPT !.tp = tpint],
                 NewNumber(8, t), t))

\* parser.go:354-379
NewSub(lhs, rhs, t, locs) ==
    NewSubTyped(addtype(lhs, locs), addtype(rhs, locs), t, locs)

\* the node NewAdd or NewSub built, or its diagnostic
Rewritten(n, rest) ==
    IF n.err # NoErr THEN ParseErr(n.err) ELSE Parsed(n.node, rest)

RECURSIVE expr(_, _), assign(_, _), assignRest(_, _), equality(_, _),
          equalityLoop(_, _), relational(_, _), relationalLoop(_, _),
          addsub(_, _), addsubLoop(_, _), muldiv(_, _), muldivLoop(_, _),
          unary(_, _), primary(_, _), addsubLoopRight(_, _)

\* parser.go:598-600
expr(t, locs) == assign(t, locs)

\* parser.go:606  the node of an assignment: l is the left side with "=" at
\* l.rest, r the right side
AssignNode(l, r) ==
    IF Failed(r) THEN r
    ELSE Parsed(NewBinary("NodeAsg", l.node, r.node, TokenArg(l.rest, r.rest)),
                r.rest)

\* parser.go:605-609  assign after its call of equality
assignRest(l, locs) ==
    IF Failed(l) THEN l
    ELSE IF equal(l.rest, "=") THEN AssignNode(l, assign(l.rest + 1, locs))
    ELSE l

\* parser.go:603-610
assign(t, locs) == assignRest(equality(t, locs), locs)

\* parser.go:617-624  the node of a case of equality's switch: l is the node
\* so far with the operator (start) at l.rest, r the relational after it
EqualityNode(l, r) ==
    IF Failed(r) THEN r
    ELSE IF equal(l.rest, "==")
    THEN Parsed(NewBinary("NodeEql", l.node, r.node, l.rest), r.rest)
    ELSE Parsed(NewBinary("NodeNeq", l.node, r.node, l.rest), r.rest)

\* parser.go:615-627  the loop of equality: l is node and token
equalityLoop(l, locs) ==
    IF Failed(l) THEN l
    ELSE IF equal(l.rest, "==") \/ equal(l.rest, "!=")
    THEN equalityLoop(EqualityNode(l, relational(l.rest + 1, locs)), locs)
    ELSE l

\* parser.go:613-628
equality(t, locs) == equalityLoop(relational(t, locs), locs)

\* A slip in relational: ">" and ">=" keep their operands in place.
RelationalNodeInPlace(l, r) ==
    IF Failed(r) THEN r
    ELSE IF equal(l.rest, "<") \/ equal(l.rest, ">")
    THEN Parsed(NewBinary("NodeLss", l.node, r.node, l.rest), r.rest)
    ELSE Parsed(NewBinary("NodeLeq", l.node, r.node, l.rest), r.rest)

\* parser.go:635-650  the node of a case of relational's switch; ">" and
\* ">=" build NodeLss and NodeLeq with the operands on the other sides
RelationalNode(l, r) ==
    IF Failed(r) THEN r
    ELSE IF equal(l.rest, "<")
    THEN Parsed(NewBinary("NodeLss", l.node, r.node, l.rest), r.rest)
    ELSE IF equal(l.rest, "<=")
    THEN Parsed(NewBinary("NodeLeq", l.node, r.node, l.rest), r.rest)
    ELSE IF equal(l.rest, ">")
    THEN Parsed(NewBinary("NodeLss", r.node, l.node, l.rest), r.rest)
    ELSE Parsed(NewBinary("NodeLeq", r.node, l.node, l.rest), r.rest)

\* parser.go:633-653  the loop of relational
relationalLoop(l, locs) ==
    IF Failed(l) THEN l
    ELSE IF \/ equal(l.rest, "<") \/ equal(l.rest, "<=")
            \/ equal(l.rest, ">") \/ equal(l.rest, ">=")
    THEN relationalLoop(RelationalNode(l, addsub(l.rest + 1, locs)), locs)
    ELSE l

\* parser.go:631-654
relational(t, locs) == relationalLoop(addsub(t, locs), locs)

\* parser.go:661-668  the node of a case of addsub's switch
AddsubNode(l, r, locs) ==
    IF Failed(r) THEN r
    ELSE IF equal(l.rest, "+")
    THEN Rewritten(NewAdd(l.node, r.node, l.rest, locs), r.rest)
    ELSE Rewritten(NewSub(l.node, r.node, l.rest, locs), r.rest)

\* A slip in addsub: the right operand is all that is left of the sum, so
\* "+" and "-" associate to the right.
addsubLoopRight(l, locs) ==
    IF Failed(l) THEN l
    ELSE IF equal(l.rest, "+") \/ equal(l.rest, "-")
    THEN AddsubNode(l, addsubLoopRight(muldiv(l.rest + 1, locs), locs), locs)
    ELSE l

\* parser.go:659-671  the loop of addsub
addsubLoop(l, locs) ==
    IF Failed(l) THEN l
    ELSE IF equal(l.rest, "+") \/ equal(l.rest, "-")
    THEN addsubLoop(AddsubNode(l, muldiv(l.rest + 1, locs), locs), locs)
    ELSE l

\* parser.go:657-672
addsub(t, locs) == addsubLoop(muldiv(t, locs), locs)

\* parser.go:679-686  the node of a case of muldiv's switch
MuldivNode(l, r) ==
    IF Failed(r) THEN r
    ELSE IF equal(l.rest, "*")
    THEN Parsed(NewBinary("NodeMul", l.node, r.node, l.rest), r.rest)
    ELSE Parsed(NewBinary("NodeDiv", l.node, r.node, l.rest), r.rest)

\* parser.go:677-689  the loop of muldiv
muldivLoop(l, locs) ==
    IF Failed(l) THEN l
    ELSE IF equal(l.rest, "*") \/ equal(l.rest, "/")
    THEN muldivLoop(MuldivNode(l, unary(l.rest + 1, locs)), locs)
    ELSE l

\* parser.go:675-690
muldiv(t, locs) == muldivLoop(unary(t, locs), locs)

\* parser.go:698-706  the node of a unary operator at t with operand r
UnaryNode(t, r) ==
    IF Failed(r) THEN r
    ELSE IF equal(t, "-") THEN Parsed(NewUnary("NodeNeg", r.node, t), r.rest)
    ELSE IF equal(t, "*") THEN Parsed(NewUnary("NodeDeref", r.node, t), r.rest)
    ELSE Parsed(NewUnary("NodeAddr", r.node, t), r.rest)

\* parser.go:694-708
unary(t, locs) ==
    IF equal(t, "+") THEN unary(t + 1, locs)
    ELSE IF equal(t, "-") \/ equal(t, "*") \/ equal(t, "&")
    THEN UnaryNode(t, unary(t + 1, locs))
    ELSE primary(t, locs)

\* parser.go:724-734  the identifier case of primary
primaryIdent(t, locs) ==
    IF findVar(t, locs) = 0
    THEN ParseErr(ErrAt("undefined variable", t))
    ELSE Parsed(NewVar(findVar(t, locs), t), t + 1)

\* parser.go:713-739
primary(t, locs) ==
    IF equal(t, "(") THEN Expect(expr(t + 1, locs), ")")
    ELSE IF tokens[t].kind = "NUM"
    THEN Parsed(NewNumber(tokens[t].value, t), t + 1)
    ELSE IF tokens[t].kind = "IDENT" THEN primaryIdent(t, locs)
    ELSE ParseErr(ErrAt("expected an expression", t))

(***************************************************************************)
(* Parser: statements and declarations (src/parser.go:428-595)             *)
(*                                                                         *)
(* A statement may declare locals, so these functions also return the      *)
(* locals list (the global locals of the code) as they leave it.           *)
(***************************************************************************)
StmtOk(node, rest, locs) ==
    [err |-> NoErr, node |-> node, rest |-> rest, locals |-> locs]
StmtErr(e, locs) == [err |-> e, node |-> Nil, rest |-> 0, locals |-> locs]

\* the result of an expression, in a statement
InStmt(e, locs) ==
    [err |-> e.err, node |-> e.node, rest |-> e.rest, locals |-> locs]

RECURSIVE declarator(_, _)
\* parser.go:503-515  the type, the token that names it, and the rest
declarator(t, tp) ==
    IF equal(t, "*") THEN declarator(t + 1, ptrto(tp))
    ELSE IF tokens[t].kind # "IDENT"
    THEN [err |-> ErrAt("expected a variable name", t), tp |-> NoType,
          name |-> 0, rest |-> 0]
    ELSE [err |-> NoErr, tp |-> tp, name |-> t, rest |-> t + 1]

\* parser.go:517-524
getIdent(t) ==
    IF tokens[t].kind # "IDENT"
    THEN [err |-> ErrAt("expected an identifier", t), name |-> ""]
    ELSE [err |-> NoErr, name |-> tokens[t].lexeme]

\* parser.go:544 and 561  the statement of a declarator with an initializer
declareInit(variable, name, init, locs) ==
    IF Failed(init) THEN StmtErr(init.err, locs)
    ELSE StmtOk(NewUnary("NodeExprStmt",
                   NewBinary("NodeAsg", NewVar(variable, name), init.node,
                             init.rest), init.rest),
                init.rest, locs)

\* parser.go:535-546 and 550-563  after declarator: the Object, then the
\* expression statement of the declarator
declareVar(d, locs) ==
    IF d.err # NoErr THEN StmtErr(d.err, locs)
    ELSE IF getIdent(d.name).err # NoErr
    THEN StmtErr(getIdent(d.name).err, locs)
    ELSE IF equal(d.rest, "=")
    THEN declareInit(Len(locs) + 1, d.name,
                     expr(d.rest + 1, NewLvar(getIdent(d.name).name, d.tp, locs)),
                     NewLvar(getIdent(d.name).name, d.tp, locs))
    ELSE StmtOk(NewUnary("NodeExprStmt", NewVar(Len(locs) + 1, d.name), d.rest),
                d.rest, NewLvar(getIdent(d.name).name, d.tp, locs))

\* parser.go:534-546 and 549-563  one declarator with its initializer
declareOne(t, baseType, locs) == declareVar(declarator(t, baseType), locs)

RECURSIVE declarationLoop(_, _, _)
\* parser.go:547-568  the loop over the declarators after the first, then
\* the block and the ";": d is the declarator just read
declarationLoop(stmts, d, baseType) ==
    IF Failed(d) THEN d
    ELSE IF tokens[d.rest].kind # "EOF" /\ ~equal(d.rest, ";")
    THEN IF Failed(skip(d.rest, ","))
         THEN StmtErr(skip(d.rest, ",").err, d.locals)
         ELSE declarationLoop(Append(stmts, d.node),
                              declareOne(d.rest + 1, baseType, d.locals),
                              baseType)
    ELSE Expect(StmtOk([NewNode("NodeBlock", d.rest) EXCEPT
                           !.body = Append(stmts, d.node)],
                       d.rest, d.locals), ";")

\* parser.go:488-491
declspec(t) == skip(t, "int")

\* A slip in declaration: "int" and ";" with nothing between them make an
\* empty block.
declarationOptional(t, locs) ==
    IF Failed(declspec(t)) THEN StmtErr(declspec(t).err, locs)
    ELSE IF equal(declspec(t).rest, ";")
    THEN StmtOk(NewNode("NodeBlock", declspec(t).rest), declspec(t).rest + 1,
                locs)
    ELSE declarationLoop(<<>>, declareOne(declspec(t).rest, tpint, locs), tpint)

\* parser.go:527-569
declaration(t, locs) ==
    IF Failed(declspec(t)) THEN StmtErr(declspec(t).err, locs)
    ELSE declarationLoop(<<>>, declareOne(declspec(t).rest, tpint, locs), tpint)

\* parser.go:592-594  the statement of an expression that began at t
ExprStmtNode(t, e, locs) ==
    IF Failed(e) THEN InStmt(e, locs)
    ELSE StmtOk(NewUnary("NodeExprStmt", e.node, TokenArg(t, e.rest)),
                e.rest, locs)

\* parser.go:587-595
exprStmt(t, locs) ==
    IF equal(t, ";") THEN StmtOk(NewNode("NodeBlock", t), t + 1, locs)
    ELSE Expect(ExprStmtNode(t, expr(t, locs), locs), ";")

RECURSIVE stmt(_, _), block(_, _), blockLoop(_, _, _, _), blockNext(_, _, _)

\* parser.go:577-583  the loop of block, then the "}"
blockLoop(t0, stmts, t, locs) ==
    IF tokens[t].kind # "EOF" /\ ~equal(t, "}")
    THEN blockNext(t0, stmts, stmt(t, locs))
    ELSE Expect(StmtOk([NewNode("NodeBlock", t0) EXCEPT !.body = stmts], t,
                       locs), "}")

\* parser.go:578-579  a statement of the block was read
blockNext(t0, stmts, s) ==
    IF Failed(s) THEN s
    ELSE blockLoop(t0, Append(stmts, s.node), s.rest, s.locals)

\* parser.go:572-584
block(t, locs) == blockLoop(t, <<>>, t, locs)

\* parser.go:437-439  the return statement whose expression is e
ReturnNode(t, e, locs) ==
    IF Failed(e) THEN InStmt(e, locs)
    ELSE StmtOk(NewUnary("NodeReturn", e.node, TokenArg(t, e.rest)), e.rest,
                locs)

\* parser.go:451-454  the else branch was read
IfElse(node, el) ==
    IF Failed(el) THEN el
    ELSE StmtOk([node EXCEPT !.elseBranch = el.node], el.rest, el.locals)

RECURSIVE IfThen(_, _), IfCond(_, _, _), ForBody(_, _), ForInc(_, _, _),
          ForCond(_, _, _), ForInit(_, _, _), WhileCond(_, _, _)

\* parser.go:449-454  the then branch was read
IfThen(node, th) ==
    IF Failed(th) THEN th
    ELSE IF equal(th.rest, "else")
    THEN IfElse([node EXCEPT !.thenBranch = th.node],
                stmt(th.rest + 1, th.locals))
    ELSE StmtOk([node EXCEPT !.thenBranch = th.node], th.rest, th.locals)

\* parser.go:447-449  the condition and its ")" were read
IfCond(node, c, locs) ==
    IF Failed(c) THEN InStmt(c, locs)
    ELSE IfThen([node EXCEPT !.condition = c.node], stmt(c.rest, locs))

\* parser.go:468-470  the body of the loop was read
ForBody(node, th) ==
    IF Failed(th) THEN th
    ELSE StmtOk([node EXCEPT !.thenBranch = th.node], th.rest, th.locals)

\* parser.go:464-468  the increment (or none) and its ")" were read
ForInc(node, n, locs) ==
    IF Failed(n) THEN InStmt(n, locs)
    ELSE ForBody([node EXCEPT !.increment = n.node], stmt(n.rest, locs))

\* parser.go:460-467  the condition (or none) and its ";" were read
ForCond(node, c, locs) ==
    IF Failed(c) THEN InStmt(c, locs)
    ELSE ForInc([node EXCEPT !.condition = c.node],
                Expect(IF ~equal(c.rest, ")") THEN expr(c.rest, locs)
                       ELSE Parsed(Nil, c.rest), ")"),
                locs)

\* parser.go:459-463  the initializer was read
ForInit(node, i, locs) ==
    IF Failed(i) THEN i
    ELSE ForCond([node EXCEPT !.initializer = i.node],
                 Expect(IF ~equal(i.rest, ";") THEN expr(i.rest, locs)
                        ELSE Parsed(Nil, i.rest), ";"),
                 locs)

\* parser.go:475-479  the condition of while and its ")" were read
WhileCond(node, c, locs) ==
    IF Failed(c) THEN InStmt(c, locs)
    ELSE ForBody([node EXCEPT !.condition = c.node], stmt(c.rest, locs))

\* parser.go:435-485
stmt(t, locs) ==
    IF equal(t, "return")
    THEN Expect(ReturnNode(t, expr(t + 1, locs), locs), ";")
    ELSE IF equal(t, "{") THEN block(t + 1, locs)
    ELSE IF equal(t, "if")
    THEN IF Failed(skip(t + 1, "(")) THEN InStmt(skip(t + 1, "("), locs)
         ELSE IfCond(NewNode("NodeIf", t), Expect(expr(t + 2, locs), ")"), locs)
    ELSE IF equal(t, "for")
    THEN IF Failed(skip(t + 1, "(")) THEN InStmt(skip(t + 1, "("), locs)
         ELSE ForInit(NewNode("NodeFor", t), exprStmt(t + 2, locs), locs)
    ELSE IF equal(t, "while")
    THEN IF Failed(skip(t + 1, "(")) THEN InStmt(skip(t + 1, "("), locs)
         ELSE WhileCond(NewNode("NodeFor", t), Expect(expr(t + 2, locs), ")"),
                        locs)
    ELSE IF equal(t, "int") THEN declaration(t, locs)
    ELSE exprStmt(t, locs)

(***************************************************************************)
(* The compiler process (src/main.go:19-29)                                *)
(***************************************************************************)
CpuOff == [state |-> "off"]

\* os.Exit(1) after a diagnostic
Exit1(d) ==
    /\ stderr' = Append(stderr, d)
    /\ exitCode' = 1
    /\ pc' = "exited"

\* what the Go runtime prints for a nil pointer dereference
NilDereference ==
    [msg |-> "panic: runtime error: invalid memory address or nil pointer dereference",
     begin |-> 0, carets |-> 0]

\* an unrecovered panic: the runtime prints it on stderr and exits with 2
Panic ==
    /\ stderr' = Append(stderr, NilDereference)
    /\ exitCode' = 2
    /\ pc' = "exited"

\* lexer.go:87-233  one iteration of the loop of tokenize.  After an empty
\* operator case p has not moved and curr is nil, so the next iteration is
\* the same case again and dereferences curr.
TokenizeLoop ==
    /\ pc = "tokenize"
    /\ p < Len(source)
    /\ LET c == source[p + 1] IN
       IF IsSpace(c)
       THEN /\ p' = p + 1
            /\ UNCHANGED <<tokens, curr, stderr, exitCode, pc>>
       ELSE IF isDigit(c)
       THEN LET q == ScanDigits(p) IN
            IF AtoiOutOfRange(Slice(p, q))
            THEN /\ Exit1(Diag("value out of range", p, q - p))
                 /\ tokens' = Append(tokens, NewToken("NUM", p, q))
                 /\ p' = q
                 /\ curr' = "tok"
            ELSE /\ tokens' = Append(tokens,
                       [NewToken("NUM", p, q) EXCEPT
                           !.value = AtoiValue(Slice(p, q), 0)])
                 /\ p' = q
                 /\ curr' = "tok"
                 /\ UNCHANGED <<stderr, exitCode, pc>>
       ELSE IF IsOperatorByte(c)
       THEN LET o == OperatorCase(c, p) IN
            IF curr = "nil"
            THEN \* curr.next on a nil curr: the Go runtime panics
                 /\ Panic
                 /\ UNCHANGED <<p, tokens, curr>>
            ELSE IF o.n = 0
            THEN \* an empty case: curr = curr.next, and that is nil
                 /\ curr' = "nil"
                 /\ UNCHANGED <<p, tokens, stderr, exitCode, pc>>
            ELSE /\ tokens' = Append(tokens, NewToken(o.kind, p, p + o.n))
                 /\ p' = p + o.n
                 /\ curr' = "tok"
                 /\ UNCHANGED <<stderr, exitCode, pc>>
       ELSE IF IsPunctByte(c)
       THEN /\ tokens' = Append(tokens, NewToken(PunctKind(c), p, p + 1))
            /\ p' = p + 1
            /\ curr' = "tok"
            /\ UNCHANGED <<stderr, exitCode, pc>>
       ELSE IF isLetter(c)
       THEN LET q == ScanIdent(p)
                w == Cat(Slice(p, q))
            IN  /\ tokens' = Append(tokens,
                       NewToken(IF w \in DOMAIN keywords THEN keywords[w]
                                ELSE "IDENT", p, q))
                /\ p' = q
                /\ curr' = "tok"
                /\ UNCHANGED <<stderr, exitCode, pc>>
       ELSE /\ Exit1(Diag("invalid token", p, 1))
            /\ UNCHANGED <<p, tokens, curr>>
    /\ UNCHANGED <<source, token, body, locals, stackSize, offsets, genpos,
                   counter, stdout, cpu, marks, argOrder>>

\* A slip in main: the head of the assembly is printed before parse.
TokenizeReturnPrints ==
    /\ pc = "tokenize"
    /\ p >= Len(source)
    /\ tokens' = Append(tokens, NewToken("EOF", p, p))
    /\ token' = 1
    /\ pc' = "parse"
    /\ stdout' = stdout \o <<[op |-> ".globl main", a |-> 0, l |-> <<"", 0>>],
                             [op |-> "main:", a |-> 0, l |-> <<"", 0>>]>>
    /\ UNCHANGED <<source, p, curr, body, locals, stackSize, offsets, genpos,
                   counter, stderr, exitCode, cpu, marks, argOrder>>

\* lexer.go:234-235 and main.go:26-27: the EOF token, and parse begins
TokenizeReturn ==
    /\ pc = "tokenize"
    /\ p >= Len(source)
    /\ tokens' = Append(tokens, NewToken("EOF", p, p))
    /\ token' = 1
    /\ pc' = "parse"
    /\ UNCHANGED <<source, p, curr, body, locals, stackSize, offsets, genpos,
                   counter, stdout, stderr, exitCode, cpu, marks, argOrder>>

\* parser.go:404 and 406  the statement was parsed (s) and typed (a)
Parsed1(s, a) ==
    IF a.err # NoErr
    THEN /\ Exit1(a.err)
         /\ locals' = s.locals
         /\ token' = s.rest
         /\ body' = Append(body, s.node)
    ELSE /\ body' = Append(body, a.node)
         /\ token' = s.rest
         /\ locals' = s.locals
         /\ UNCHANGED <<stderr, exitCode, pc>>

\* parser.go:403-407  what follows stmt(&token, token) in one round of the
\* loop of parse
AfterStmt(s) ==
    IF Failed(s)
    THEN /\ Exit1(s.err)
         /\ locals' = s.locals
         /\ UNCHANGED <<token, body>>
    ELSE Parsed1(s, addtype(s.node, s.locals))

\* parser.go:399-407  one round of the loop of parse
ParseStmt ==
    /\ pc = "parse"
    /\ tokens[token].kind # "EOF"
    /\ AfterStmt(stmt(token, locals))
    /\ UNCHANGED <<source, p, tokens, curr, stackSize, offsets, genpos,
                   counter, stdout, cpu, marks, argOrder>>

\* parser.go:408-412 and main.go:27-28: the Function, and gen begins
ParseReturn ==
    /\ pc = "parse"
    /\ tokens[token].kind = "EOF"
    /\ pc' = "gen"
    /\ UNCHANGED <<source, p, tokens, curr, token, body, locals, stackSize,
                   offsets, genpos, counter, stdout, stderr, exitCode, cpu,
                   marks, argOrder>>

(***************************************************************************)
(* Code generator (src/unnamed/part_002:108-296)                           *)
(*                                                                         *)
(* A printed line is a record: op names the instruction, a is its number   *)
(* (an immediate, a frame offset) and l its label.                         *)
(***************************************************************************)
NoLabel == <<"", 0>>
Ins(op) == [op |-> op, a |-> 0, l |-> NoLabel]
InsA(op, a) == [op |-> op, a |-> a, l |-> NoLabel]
InsL(op, l) == [op |-> op, a |-> 0, l |-> l]

LReturn == <<".L.return", 0>>
LElse(c) == <<".L.else", c>>
LEnd(c) == <<".L.end", c>>
LBegin(c) == <<".L.begin", c>>

\* part_002:132-134
push == Ins("push %rax")

\* part_002:136-138
pop(arg) == Ins("pop " \o arg)

\* A slip in the counter: it hands out the same index again.
counterStuck(i) == [value |-> i, i |-> i]

\* part_002:123-130  one call of the closure: the value returned and the
\* new value of the captured i
counterCall(i) == [value |-> i, i |-> i + 1]

\* part_002:152-154
alignTo(n, align) == ((n + align - 1) \div align) * align

\* A slip in the frame size: the byte count without the rounding.
frameSizeUnaligned(locs) == 8 * Len(locs)

\* part_002:142-147  the loop adds 8 per Object; the size is the aligned sum
frameSize(locs) == alignTo(8 * Len(locs), 16)

\* A slip in assignLvarOffsets: the offset is not advanced.
assignLvarOffsetsSame(locs) ==
    [id \in {locs[k].id : k \in 1..Len(locs)} |-> -8]

\* A slip in assignLvarOffsets: the list is walked from its tail.
assignLvarOffsetsFromTail(locs) ==
    [id \in {locs[k].id : k \in 1..Len(locs)} |->
        -8 * (Len(locs) + 1 - (CHOOSE k \in 1..Len(locs) : locs[k].id = id))]

\* part_002:143-146  the k-th Object from the head gets -8k
assignLvarOffsets(locs) ==
    [id \in {locs[k].id : k \in 1..Len(locs)} |->
        -8 * (CHOOSE k \in 1..Len(locs) : locs[k].id = id)]

\* the output of a piece of the generator: the lines printed, and the
\* diagnostic if it ended the process
Code(out) == [err |-> NoErr, out |-> out]
CodeErr(e) == [err |-> e, out |-> <<>>]
Then(a, b) ==
    IF a.err # NoErr THEN a ELSE [err |-> b.err, out |-> a.out \o b.out]

\* part_002:267-295  the instructions of a binary operator
BinaryOp(kind) ==
    CASE kind = "NodeAdd" -> <<Ins("add %rdi, %rax")>>
      [] kind = "NodeSub" -> <<Ins("sub %rdi, %rax")>>
      [] kind = "NodeMul" -> <<Ins("imul %rdi, %rax")>>
      [] kind = "NodeDiv" -> <<Ins("cqo"), Ins("idiv %rdi")>>
      [] kind = "NodeEql" ->
           <<Ins("cmp %rdi, %rax"), Ins("sete %al"), Ins("movzb %al, %rax")>>
      [] kind = "NodeNeq" ->
           <<Ins("cmp %rdi, %rax"), Ins("setne %al"), Ins("movzb %al, %rax")>>
      [] kind = "NodeLss" ->
           <<Ins("cmp %rdi, %rax"), Ins("setl %al"), Ins("movzb %al, %rax")>>
      [] kind = "NodeLeq" ->
           <<Ins("cmp %rdi, %rax"), Ins("setle %al"), Ins("movzb %al, %rax")>>
      [] OTHER -> <<>>

RECURSIVE genExpr(_), genAddr(_), genBinary(_), genAssign(_),
          genBinaryLeftFirst(_), genBinaryNoPop(_)

\* A slip in genAddr: a node of another kind is passed over in silence.
genAddrQuiet(node) ==
    CASE node.kind = "NodeVar" ->
           Code(<<InsA("lea a(%rbp), %rax", offsets[node.variable])>>)
      [] node.kind = "NodeDeref" -> genExpr(node.lhs)
      [] OTHER -> Code(<<>>)

\* part_002:221-233
genAddr(node) ==
    CASE node.kind = "NodeVar" ->
           Code(<<InsA("lea a(%rbp), %rax", offsets[node.variable])>>)
      [] node.kind = "NodeDeref" -> genExpr(node.lhs)
      [] OTHER -> CodeErr(ErrAt("not addressable", node.token))

\* A slip in the binary operators: the pushed operand is never popped.
genBinaryNoPop(node) ==
    Then(genExpr(node.rhs),
    Then(Code(<<push>>),
    Then(genExpr(node.lhs),
         Code(BinaryOp(node.kind)))))

\* A slip in the operand order: the left operand is pushed and ends in RDI.
genBinaryLeftFirst(node) ==
    Then(genExpr(node.lhs),
    Then(Code(<<push>>),
    Then(genExpr(node.rhs),
         Code(<<pop("%rdi")>> \o BinaryOp(node.kind)))))

\* part_002:263-295
genBinary(node) ==
    Then(genExpr(node.rhs),
    Then(Code(<<push>>),
    Then(genExpr(node.lhs),
         Code(<<pop("%rdi")>> \o BinaryOp(node.kind)))))

\* A slip in the assignment: the right side is evaluated before the
\* address of the left side.
genAssignValueFirst(node) ==
    Then(genExpr(node.rhs),
    Then(Code(<<push>>),
    Then(genAddr(node.lhs),
         Code(<<pop("%rdi"), Ins("mov %rax, (%rdi)")>>))))

\* part_002:255-261
genAssign(node) ==
    Then(genAddr(node.lhs),
    Then(Code(<<push>>),
    Then(genExpr(node.rhs),
         Code(<<pop("%rdi"), Ins("mov %rax, (%rdi)")>>))))

\* A slip in the dereference case: the pointer is not followed.
genExprNoLoad(node) ==
    CASE node.kind = "NodeNum" -> Code(<<InsA("mov $a, %rax", node.value)>>)
      [] node.kind = "NodeNeg" ->
           Then(genExpr(node.lhs), Code(<<Ins("neg %rax")>>))
      [] node.kind = "NodeDeref" -> genExpr(node.lhs)
      [] node.kind = "NodeAddr" -> genAddr(node.lhs)
      [] node.kind = "NodeVar" ->
           Then(genAddr(node), Code(<<Ins("mov (%rax), %rax")>>))
      [] node.kind = "NodeAsg" -> genAssign(node)
      [] OTHER -> genBinary(node)

\* part_002:235-296
genExpr(node) ==
    CASE node.kind = "NodeNum" -> Code(<<InsA("mov $a, %rax", node.value)>>)
      [] node.kind = "NodeNeg" ->
           Then(genExpr(node.lhs), Code(<<Ins("neg %rax")>>))
      [] node.kind = "NodeDeref" ->
           Then(genExpr(node.lhs), Code(<<Ins("mov (%rax), %rax")>>))
      [] node.kind = "NodeAddr" -> genAddr(node.lhs)
      [] node.kind = "NodeVar" ->
           Then(genAddr(node), Code(<<Ins("mov (%rax), %rax")>>))
      [] node.kind = "NodeAsg" -> genAssign(node)
      [] OTHER -> genBinary(node)

\* The output of a statement: the lines, the diagnostic if any, the counter
\* as the statement leaves it, and (ghost) the offsets into the lines at
\* which a statement begins or ends.
Stmt(out, c) == [err |-> NoErr, out |-> out, counter |-> c, marks |-> {}]
OfExpr(e, c) == [err |-> e.err, out |-> e.out, counter |-> c, marks |-> {}]
Join(a, b) ==
    IF a.err # NoErr THEN a
    ELSE [err |-> b.err, out |-> a.out \o b.out, counter |-> b.counter,
          marks |-> a.marks \cup {m + Len(a.out) : m \in b.marks}]
Bounded(g) == [g EXCEPT !.marks = @ \cup {0, Len(g.out)}]

RECURSIVE genStmt(_, _), genBody(_, _, _)

\* part_002:178-180 (and 163-165)  the statements of a list, from the i-th
genBody(stmts, i, c) ==
    IF i > Len(stmts) THEN Stmt(<<>>, c)
    ELSE LET g == genStmt(stmts[i], c)
         IN  Join(g, genBody(stmts, i + 1, g.counter))

\* A slip in the if case: no jump over the else branch.
genIfFallsIntoElse(node, c) ==
    LET n == counterCall(c)
        cond == OfExpr(genExpr(node.condition), n.i)
        th == genStmt(node.thenBranch, n.i)
        el == IF node.elseBranch.kind # "nil"
              THEN genStmt(node.elseBranch, th.counter)
              ELSE Stmt(<<>>, th.counter)
    IN  Join(cond,
        Join(Stmt(<<InsA("cmp $a, %rax", 0), InsL("je", LElse(n.value))>>, n.i),
        Join(th,
        Join(Stmt(<<InsL("label", LElse(n.value))>>, th.counter),
        Join(el,
             Stmt(<<InsL("label", LEnd(n.value))>>, el.counter))))))

\* part_002:186-198
genIf(node, c) ==
    LET n == counterCall(c)
        cond == OfExpr(genExpr(node.condition), n.i)
        th == genStmt(node.thenBranch, n.i)
        el == IF node.elseBranch.kind # "nil"
              THEN genStmt(node.elseBranch, th.counter)
              ELSE Stmt(<<>>, th.counter)
    IN  Join(cond,
        Join(Stmt(<<InsA("cmp $a, %rax", 0), InsL("je", LElse(n.value))>>, n.i),
        Join(th,
        Join(Stmt(<<InsL("jmp", LEnd(n.value)), InsL("label", LElse(n.value))>>,
                  th.counter),
        Join(el,
             Stmt(<<InsL("label", LEnd(n.value))>>, el.counter))))))

\* A slip in the for case: the condition is tested after the body.
genForBodyFirst(node, c) ==
    LET n == counterCall(c)
        init == IF node.initializer.kind # "nil"
                THEN genStmt(node.initializer, n.i)
                ELSE Stmt(<<>>, n.i)
        cond == IF node.condition.kind # "nil"
                THEN Join(OfExpr(genExpr(node.condition), init.counter),
                          Stmt(<<InsA("cmp $a, %rax", 0),
                                 InsL("je", LEnd(n.value))>>, init.counter))
                ELSE Stmt(<<>>, init.counter)
        th == genStmt(node.thenBranch, init.counter)
        inc == IF node.increment.kind # "nil"
               THEN OfExpr(genExpr(node.increment), th.counter)
               ELSE Stmt(<<>>, th.counter)
    IN  Join(init,
        Join(Stmt(<<InsL("label", LBegin(n.value))>>, init.counter),
        Join(th,
        Join([cond EXCEPT !.counter = th.counter],
        Join(inc,
             Stmt(<<InsL("jmp", LBegin(n.value)),
                    InsL("label", LEnd(n.value))>>, th.counter))))))

\* part_002:199-216
genFor(node, c) ==
    LET n == counterCall(c)
        init == IF node.initializer.kind # "nil"
                THEN genStmt(node.initializer, n.i)
                ELSE Stmt(<<>>, n.i)
        cond == IF node.condition.kind # "nil"
                THEN Join(OfExpr(genExpr(node.condition), init.counter),
                          Stmt(<<InsA("cmp $a, %rax", 0),
                                 InsL("je", LEnd(n.value))>>, init.counter))
                ELSE Stmt(<<>>, init.counter)
        th == genStmt(node.thenBranch, init.counter)
        inc == IF node.increment.kind # "nil"
               THEN OfExpr(genExpr(node.increment), th.counter)
               ELSE Stmt(<<>>, th.counter)
    IN  Join(init,
        Join(Stmt(<<InsL("label", LBegin(n.value))>>, init.counter),
        Join(cond,
        Join(th,
        Join(inc,
             Stmt(<<InsL("jmp", LBegin(n.value)),
                    InsL("label", LEnd(n.value))>>, th.counter))))))

\* A slip in the return case: no jump to the epilogue.
genStmtFallsThrough(node, c) ==
    Bounded(
      CASE node.kind = "NodeExprStmt" -> OfExpr(genExpr(node.lhs), c)
        [] node.kind = "NodeBlock" -> genBody(node.body, 1, c)
        [] node.kind = "NodeReturn" -> OfExpr(genExpr(node.lhs), c)
        [] node.kind = "NodeIf" -> genIf(node, c)
        [] node.kind = "NodeFor" -> genFor(node, c)
        [] OTHER -> Stmt(<<>>, c))

\* part_002:172-218
genStmt(node, c) ==
    Bounded(
      CASE node.kind = "NodeExprStmt" -> OfExpr(genExpr(node.lhs), c)
        [] node.kind = "NodeBlock" -> genBody(node.body, 1, c)
        [] node.kind = "NodeReturn" ->
             Join(OfExpr(genExpr(node.lhs), c),
                  Stmt(<<InsL("jmp", LReturn)>>, c))
        [] node.kind = "NodeIf" -> genIf(node, c)
        [] node.kind = "NodeFor" -> genFor(node, c)
        [] OTHER -> Stmt(<<>>, c))

\* part_002:157-162  assignLvarOffsets and the prologue
GenPrologue ==
    /\ pc = "gen"
    /\ genpos = 0
    /\ offsets' = assignLvarOffsets(locals)
    /\ stackSize' = frameSize(locals)
    /\ stdout' = stdout \o <<Ins(".globl main"), Ins("main:"),
                             Ins("push %rbp"), Ins("mov %rsp, %rbp"),
                             InsA("sub $a, %rsp", frameSize(locals))>>
    /\ genpos' = 1
    /\ UNCHANGED <<source, pc, p, tokens, curr, token, body, locals, counter,
                   stderr, exitCode, cpu, marks, argOrder>>

\* part_002:163-165  genStmt of the next top-level statement
GenStmt ==
    /\ pc = "gen"
    /\ genpos >= 1
    /\ genpos <= Len(body)
    /\ LET g == genStmt(body[genpos], counter) IN
       /\ stdout' = stdout \o g.out
       /\ marks' = marks \cup {Len(stdout) + m + 1 : m \in g.marks}
       /\ counter' = g.counter
       /\ IF g.err # NoErr
          THEN /\ Exit1(g.err)
               /\ UNCHANGED genpos
          ELSE /\ genpos' = genpos + 1
               /\ UNCHANGED <<stderr, exitCode, pc>>
    /\ UNCHANGED <<source, p, tokens, curr, token, body, locals, stackSize,
                   offsets, cpu, argOrder>>

\* A slip in the epilogue: main returns 0 whatever RAX held.
GenEpilogueClears ==
    /\ pc = "gen"
    /\ genpos > Len(body)
    /\ stdout' = stdout \o <<InsL("label", LReturn),
                             InsA("mov $a, %rax", 0), Ins("mov %rbp, %rsp"),
                             Ins("pop %rbp"), Ins("ret")>>
    /\ exitCode' = 0
    /\ pc' = "exited"
    /\ UNCHANGED <<source, p, tokens, curr, token, body, locals, stackSize,
                   offsets, genpos, counter, stderr, cpu, marks, argOrder>>

\* part_002:166-169 and main.go:29  the epilogue, and main returns
GenEpilogue ==
    /\ pc = "gen"
    /\ genpos > Len(body)
    /\ stdout' = stdout \o <<InsL("label", LReturn), Ins("mov %rbp, %rsp"),
                             Ins("pop %rbp"), Ins("ret")>>
    /\ exitCode' = 0
    /\ pc' = "exited"
    /\ UNCHANGED <<source, p, tokens, curr, token, body, locals, stackSize,
                   offsets, genpos, counter, stderr, cpu, marks, argOrder>>

(***************************************************************************)
(* The machine that runs the emitted program: the part of x86-64 the       *)
(* generator uses.  A word is an integer; the model stops the machine      *)
(* (state "limit") where a result leaves -MaxWord..MaxWord.                *)
(***************************************************************************)
MaxWord == 1200

\* RSP at the call of main is StackTop - 8 (the return address is there);
\* the stack is mapped from StackLow up
StackTop == 64 * 16
StackLow == StackTop - 64 * 8
Mapped(a) == a >= StackLow /\ a <= StackTop /\ a % 8 = 0

\* what a register or a word of the stack holds before the program writes it
Junk == {0, 5}

\* the index in stdout of the line after the label
Target(l) ==
    (CHOOSE i \in 1..Len(stdout) : stdout[i] = InsL("label", l)) + 1

Abs(x) == IF x < 0 THEN -x ELSE x

\* idiv: the quotient truncated toward zero
Quot(a, b) ==
    IF (a < 0) = (b < 0) THEN Abs(a) \div Abs(b) ELSE -(Abs(a) \div Abs(b))

InRange(v) == v >= -MaxWord /\ v <= MaxWord

Next1(c) == [c EXCEPT !.pc = @ + 1]
SetRax(c, v) ==
    IF InRange(v) THEN [Next1(c) EXCEPT !.rax = v]
    ELSE [c EXCEPT !.state = "limit"]
Fault(c) == [c EXCEPT !.state = "fault"]

\* set<cc> %al then movzb %al, %rax: the low byte of RAX
SetAl(c, bit) == [Next1(c) EXCEPT !.rax = (c.rax - (c.rax % 256)) + bit]
Bit(b) == IF b THEN 1 ELSE 0

\* what the word at address a may hold: what was written there, or
\* whatever the stack held before
Holds(c, a) == IF a \in DOMAIN c.mem THEN {c.mem[a]} ELSE Junk

\* the word at address a was read as v: it holds v from now on
Read(c, a, v) == [c EXCEPT !.mem = (a :> v) @@ c.mem]

\* the machine states after the instruction at c.pc
Step(c) ==
    LET i == stdout[c.pc]
        op == i.op
    IN  CASE op = "push %rbp" ->
               IF Mapped(c.rsp - 8)
               THEN {[Next1(c) EXCEPT !.rsp = c.rsp - 8,
                                      !.mem = (c.rsp - 8 :> c.rbp) @@ c.mem]}
               ELSE {Fault(c)}
          [] op = "mov %rsp, %rbp" -> {[Next1(c) EXCEPT !.rbp = c.rsp]}
          [] op = "sub $a, %rsp" -> {[Next1(c) EXCEPT !.rsp = c.rsp - i.a]}
          [] op = "push %rax" ->
               IF Mapped(c.rsp - 8)
               THEN {[Next1(c) EXCEPT !.rsp = c.rsp - 8,
                                      !.mem = (c.rsp - 8 :> c.rax) @@ c.mem]}
               ELSE {Fault(c)}
          [] op = "pop %rdi" ->
               IF ~Mapped(c.rsp) THEN {Fault(c)}
               ELSE {[Next1(Read(c, c.rsp, v)) EXCEPT !.rsp = c.rsp + 8,
                                                      !.rdi = v] :
                       v \in Holds(c, c.rsp)}
          [] op = "pop %rbp" ->
               IF ~Mapped(c.rsp) THEN {Fault(c)}
               ELSE {[Next1(Read(c, c.rsp, v)) EXCEPT !.rsp = c.rsp + 8,
                                                      !.rbp = v] :
                       v \in Holds(c, c.rsp)}
          [] op = "mov %rbp, %rsp" -> {[Next1(c) EXCEPT !.rsp = c.rbp]}
          [] op = "mov $a, %rax" -> {[Next1(c) EXCEPT !.rax = i.a]}
          [] op = "lea a(%rbp), %rax" -> {[Next1(c) EXCEPT !.rax = c.rbp + i.a]}
          [] op = "mov (%rax), %rax" ->
               IF ~Mapped(c.rax) THEN {Fault(c)}
               ELSE {[Next1(Read(c, c.rax, v)) EXCEPT !.rax = v] :
                       v \in Holds(c, c.rax)}
          [] op = "mov %rax, (%rdi)" ->
               IF ~Mapped(c.rdi) THEN {Fault(c)}
               ELSE {[Next1(c) EXCEPT !.mem = (c.rdi :> c.rax) @@ c.mem]}
          [] op = "neg %rax" -> {SetRax(c, -c.rax)}
          [] op = "add %rdi, %rax" -> {SetRax(c, c.rax + c.rdi)}
          [] op = "sub %rdi, %rax" -> {SetRax(c, c.rax - c.rdi)}
          [] op = "imul %rdi, %rax" -> {SetRax(c, c.rax * c.rdi)}
          [] op = "cqo" ->
               {[Next1(c) EXCEPT !.rdx = IF c.rax < 0 THEN -1 ELSE 0]}
          [] op = "idiv %rdi" ->
               \* #DE: a zero divisor, or a quotient that does not fit
               IF c.rdi = 0 \/ c.rdx # (IF c.rax < 0 THEN -1 ELSE 0)
               THEN {Fault(c)}
               ELSE {[SetRax(c, Quot(c.rax, c.rdi)) EXCEPT
                         !.rdx = c.rax - c.rdi * Quot(c.rax, c.rdi)]}
          [] op = "cmp %rdi, %rax" -> {[Next1(c) EXCEPT !.flags = <<c.rax, c.rdi>>]}
          [] op = "cmp $a, %rax" -> {[Next1(c) EXCEPT !.flags = <<c.rax, i.a>>]}
          [] op = "sete %al" -> {SetAl(c, Bit(c.flags[1] = c.flags[2]))}
          [] op = "setne %al" -> {SetAl(c, Bit(c.flags[1] # c.flags[2]))}
          [] op = "setl %al" -> {SetAl(c, Bit(c.flags[1] < c.flags[2]))}
          [] op = "setle %al" -> {SetAl(c, Bit(c.flags[1] <= c.flags[2]))}
          [] op = "movzb %al, %rax" -> {[Next1(c) EXCEPT !.rax = c.rax % 256]}
          [] op = "je" ->
               {IF c.flags[1] = c.flags[2] THEN [c EXCEPT !.pc = Target(i.l)]
                ELSE Next1(c)}
          [] op = "jmp" -> {[c EXCEPT !.pc = Target(i.l)]}
          [] op = "label" -> {Next1(c)}
          [] op = "ret" ->
               \* back to the caller if RSP is where the call left it
               IF c.rsp = StackTop - 8 THEN {[c EXCEPT !.state = "returned"]}
               ELSE {Fault(c)}
          [] OTHER -> {Fault(c)}

\* the exit status of the process whose main returned
ExitStatus(c) == c.rax % 256

\* The emitted program is assembled and main is called.
Call ==
    /\ pc = "exited"
    /\ exitCode = 0
    /\ cpu.state = "off"
    /\ \E j \in Junk :
         cpu' = [state |-> "run",
                 pc |-> (CHOOSE i \in 1..Len(stdout) : stdout[i] = Ins("main:")) + 1,
                 rax |-> j, rdi |-> 1, rdx |-> j, rsp |-> StackTop - 8,
                 rbp |-> StackTop + 8 * 8, flags |-> <<j, 0>>,
                 mem |-> (StackTop - 8 :> 0)]
    /\ UNCHANGED <<source, pc, p, tokens, curr, token, body, locals, stackSize,
                   offsets, genpos, counter, stdout, stderr, exitCode, marks,
                   argOrder>>

\* The machine executes one instruction.
Exec ==
    /\ cpu.state = "run"
    /\ cpu' \in Step(cpu)
    /\ UNCHANGED <<source, pc, p, tokens, curr, token, body, locals, stackSize,
                   offsets, genpos, counter, stdout, stderr, exitCode, marks,
                   argOrder>>

(***************************************************************************)
(* Specifications.  They differ in the sources main is run on.             *)
(***************************************************************************)
ArgOrders == {"in_order", "calls_first"}

InitWith(Sources, Orders) ==
    /\ source \in Sources
    /\ argOrder \in Orders
    /\ pc = "tokenize"
    /\ p = 0
    /\ tokens = <<>>
    /\ curr = "head"
    /\ token = 0
    /\ body = <<>>
    /\ locals = <<>>
    /\ stackSize = 0
    /\ offsets = <<>>
    /\ genpos = 0
    /\ counter = 1
    /\ stdout = <<>>
    /\ stderr = <<>>
    /\ exitCode = -1
    /\ cpu = CpuOff
    /\ marks = {}

Next ==
    \/ TokenizeLoop
    \/ TokenizeReturn
    \/ ParseStmt
    \/ ParseReturn
    \/ GenPrologue
    \/ GenStmt
    \/ GenEpilogue
    \/ Call
    \/ Exec

\* the strings over an alphabet, up to a length
RECURSIVE Strings(_, _)
Strings(A, n) ==
    IF n = 0 THEN {<<>>}
    ELSE LET S == Strings(A, n - 1)
         IN  S \cup {Append(s, c) : s \in {x \in S : Len(x) = n - 1}, c \in A}

\* SpecLex: every source of at most MaxSrcLen bytes over LexAlphabet
MaxSrcLen == 3
LexAlphabet == {"1", "a", " ", ";", "@", "+", "-", "*", "/", "=", "!", "<",
                ">", "&"}
LexSources == Strings(LexAlphabet, MaxSrcLen)

InitLex == InitWith(LexSources, {"calls_first"})
SpecLex == InitLex /\ [][Next]_vars

\* the bytes of a word of a source text
Spell(w) ==
    CASE w = "int" -> <<"i", "n", "t">>
      [] w = "return" -> <<"r", "e", "t", "u", "r", "n">>
      [] w = "if" -> <<"i", "f">>
      [] w = "else" -> <<"e", "l", "s", "e">>
      [] w = "for" -> <<"f", "o", "r">>
      [] w = "while" -> <<"w", "h", "i", "l", "e">>
      [] w = "==" -> <<"=", "=">>
      [] w = "!=" -> <<"!", "=">>
      [] w = "<=" -> <<"<", "=">>
      [] w = ">=" -> <<">", "=">>
      [] w = "xy" -> <<"x", "y">>
      [] w = "42" -> <<"4", "2">>
      [] OTHER -> <<w>>

RECURSIVE Text(_)
\* the source text of a sequence of words: the words with a space after each
Text(ws) ==
    IF ws = <<>> THEN <<>> ELSE Spell(Head(ws)) \o <<" ">> \o Text(Tail(ws))

\* SpecExpr: one expression statement.  The expressions are two binary
\* operators over three operands, bare and with either pair in parentheses,
\* chains of unary operators, and assignments to declared variables.
BinaryOps == {"+", "-", "*", "/", "==", "!=", "<", "<=", ">", ">="}
Firsts == {<<"7">>, <<"-", "7">>}
Seconds == {<<"2">>, <<"7">>}
Thirds == {<<"3">>}

Chains ==
    {x \o <<o1>> \o y \o <<o2>> \o z :
        x \in Firsts, o1 \in BinaryOps, y \in Seconds, o2 \in BinaryOps,
        z \in Thirds}

Grouped ==
    {<<"(", "7", o1, "2", ")", o2, "3">> : o1 \in BinaryOps, o2 \in BinaryOps}
    \cup
    {<<"7", o1, "(", "2", o2, "3", ")">> : o1 \in BinaryOps, o2 \in BinaryOps}

Prefixed ==
    {<<"5">>, <<"+", "5">>, <<"-", "5">>, <<"-", "-", "5">>, <<"-", "+", "5">>,
     <<"+", "-", "5">>, <<"-", "(", "-", "5", ")">>, <<"-", "-", "-", "5">>,
     <<"-", "(", "5", "-", "7", ")">>, <<"(", "(", "5", ")", ")">>,
     <<"5", "-", "-", "7">>, <<"5", "*", "-", "7">>, <<"-", "5", "/", "2">>,
     <<"1", "-", "2", "-", "3">>, <<"5", "+", "6", "*", "7">>,
     <<"5", "*", "(", "9", "-", "6", ")">>, <<"(", "3", "+", "5", ")", "/", "2">>}

Declared == <<"int", "a", ",", "b", ",", "*", "p", ";">>

Assignments ==
    {Declared \o e :
        e \in {<<"a", "=", "b", "=", "3">>, <<"a", "=", "1", "+", "2">>,
               <<"a", "=", "b", "=", "1", "<", "2">>,
               <<"a", "=", "b", "==", "3">>, <<"a", "=", "(", "b", "=", "3", ")">>,
               <<"a", "=", "-", "b">>, <<"*", "&", "a">>, <<"-", "*", "&", "a">>,
               <<"&", "*", "p">>, <<"*", "p", "=", "a", "=", "2">>,
               <<"p", "=", "&", "a">>, <<"a", "+", "b", "*", "a">>,
               <<"p", "+", "1", "+", "2">>, <<"1", "+", "p", "-", "2">>,
               <<"p", "-", "p", "-", "1">>, <<"a", "-", "(", "p", "-", "p", ")">>,
               <<"p", "+", "a", "*", "2">>, <<"p", "-", "1">>,
               <<"p", "-", "a">>, <<"p", "+", "p">>, <<"1", "-", "p">>,
               <<"a", "-", "p", "+", "1">>, <<"&", "a", "+", "p">>}}

\* test.sh:47-52  returns of > and >=, and chains of them
Comparisons ==
    {<<"return", "1", o, y>> : o \in {">", ">="}, y \in {"0", "1", "2"}}
    \cup {<<"return", "3", ">", "2", ">", "1">>,
          <<"return", "1", ">", "0", ">=", "1">>,
          <<"return", "0", ">=", "2", ">=", "0">>,
          <<"return", "1", "<", "2", ">", "0">>}

\* programs whose result tells the order in which operands are evaluated
Ordered ==
    {<<"int", "a", ";", "return", "(", "a", "=", "1", ")", "+", "(", "a", "=",
       "2", ")">>,
     <<"int", "a", "=", "1", ";", "return", "a", "+", "(", "a", "=", "5", ")">>,
     <<"int", "a", "=", "1", ";", "return", "(", "a", "=", "5", ")", "+", "a">>,
     <<"int", "a", "=", "0", ",", "b", "=", "0", ",", "*", "p", "=", "&", "a",
       ";", "*", "p", "=", "(", "p", "=", "&", "b", ")", "!=", "0", ";",
       "return", "a">>,
     <<"int", "a", "=", "0", ",", "b", "=", "0", ",", "*", "p", "=", "&", "a",
       ";", "*", "p", "=", "(", "p", "=", "&", "b", ")", "!=", "0", ";",
       "return", "b">>}

ExprSources ==
    {Text(e \o <<";">>) :
        e \in Chains \cup Grouped \cup Prefixed \cup Assignments
              \cup Comparisons \cup Ordered}

InitExpr == InitWith(ExprSources, ArgOrders)
SpecExpr == InitExpr /\ [][Next]_vars

\* SpecProg: declarations followed by at most two statements
Declarations ==
    {<<>>,
     <<"int", "a", ";">>,
     <<"int", "a", ",", "b", ";">>,
     <<"int", "a", ",", "b", ",", "*", "p", ";">>,
     <<"int", "a", "=", "1", ",", "b", "=", "a", ",", "*", "p", "=", "&", "a",
       ",", "*", "*", "q", "=", "&", "p", ";">>}

Statements ==
    {<<"a", "=", "3", ";">>,
     <<"return", "a", ";">>,
     <<"if", "(", "a", ")", "b", "=", "1", ";", "else", "b", "=", "2", ";">>,
     <<"if", "(", "1", ")", "if", "(", "a", ")", "a", "=", "2", ";">>,
     <<"for", "(", "a", "=", "0", ";", "a", "<", "2", ";", "a", "=", "a", "+",
       "1", ")", "b", "=", "b", "+", "a", ";">>,
     <<"while", "(", "a", ")", "a", "=", "a", "-", "1", ";">>,
     <<"{", "a", "=", "1", ";", "b", "=", "a", ";", "}">>,
     <<"p", "=", "&", "a", ";">>,
     <<"*", "p", "=", "5", ";">>,
     <<"return", "*", "p", ";">>,
     <<"*", "(", "p", "+", "1", ")", "=", "2", ";">>,
     <<"*", "1", ";">>,
     <<"*", "a", ";">>,
     <<"xy", ";">>,
     <<";">>,
     <<"for", "(", ";", ";", ")", "return", "1", ";">>,
     <<"1", "=", "2", ";">>,
     <<"if", "(", "a", "==", "b", ")", "{", "b", "=", "1", ";", "}", "else",
       "{", "while", "(", "0", ")", ";", "}">>}

\* programs with declared locals, pointers, returns, branches and loops
Programs ==
    {<<"int", "a", ";", "int", "z", ";", "a", "=", "3", ";", "z", "=", "5",
       ";", "return", "a", "+", "z", ";">>,
     <<"int", "a", ",", "b", ";", "a", "=", "b", "=", "3", ";", "return",
       "a", "+", "b", ";">>,
     <<"int", "a", "=", "3", ";", "int", "b", "=", "4", ";", "a", "=", "b",
       ";", "b", "=", "7", ";", "return", "a", ";">>,
     <<"int", "a", "=", "1", ",", "b", "=", "2", ";", "a", "=", "5", ";",
       "return", "b", ";">>,
     <<"int", "a", "=", "2", ";", "a", "=", "a", "+", "1", ";", "a", "=",
       "a", "*", "a", ";">>,
     <<"int", "a", ";", "int", "b", ";", "b", "=", "(", "a", "=", "4", ")",
       "+", "1", ";", "return", "a", "*", "b", ";">>,
     <<"int", "x", "=", "3", ";", "int", "*", "y", "=", "&", "x", ";",
       "return", "*", "y", ";">>,
     <<"int", "x", "=", "3", ";", "int", "*", "y", "=", "&", "x", ";", "*",
       "y", "=", "5", ";", "return", "x", ";">>,
     <<"int", "x", "=", "3", ";", "int", "*", "y", "=", "&", "x", ";", "x",
       "=", "7", ";", "return", "*", "y", ";">>,
     <<"int", "x", "=", "3", ";", "int", "*", "y", "=", "&", "x", ";", "int",
       "*", "*", "z", "=", "&", "y", ";", "*", "*", "z", "=", "4", ";",
       "return", "x", ";">>,
     <<"int", "x", "=", "3", ";", "return", "*", "&", "x", ";">>,
     <<"int", "x", ";", "int", "*", "y", "=", "&", "x", ";", "*", "y", "=",
       "2", ";", "return", "x", ";">>,
     <<"int", "x", "=", "3", ",", "y", "=", "5", ";", "return", "*", "(",
       "&", "y", "+", "1", ")", ";">>,
     <<"int", "x", "=", "3", ",", "y", "=", "5", ";", "int", "*", "p", "=",
       "&", "x", ";", "*", "p", "=", "*", "p", "+", "y", ";", "return",
       "x", ";">>,
     <<"return", "1", ";", "2", ";", "3", ";">>,
     <<"1", ";", "return", "2", ";", "3", ";">>,
     <<"1", ";", "2", ";", "return", "3", ";">>,
     <<"{", "{", "1", ";", "{", "2", ";", "}", "return", "3", ";", "}", "}">>,
     <<"int", "a", "=", "1", ";", "return", "a", ";", "a", "=", "2", ";">>,
     <<"int", "a", "=", "1", ";", "{", "return", "a", "=", "4", ";", "}",
       "a", "=", "2", ";">>,
     <<"if", "(", "0", ")", "return", "2", ";", "return", "3", ";">>,
     <<"if", "(", "1", ")", "return", "2", ";", "return", "3", ";">>,
     <<"if", "(", "1", "-", "1", ")", "return", "2", ";", "return", "3",
       ";">>,
     <<"if", "(", "0", ")", "{", "1", ";", "2", ";", "return", "3", ";", "}",
       "else", "{", "return", "4", ";", "}">>,
     <<"if", "(", "1", ")", "{", "1", ";", "2", ";", "return", "3", ";", "}",
       "else", "{", "return", "4", ";", "}">>,
     <<"int", "a", "=", "0", ";", "if", "(", "a", "=", "a", "+", "1", ")",
       "a", "=", "a", "+", "5", ";", "else", "a", "=", "a", "+", "9", ";",
       "return", "a", ";">>,
     <<"int", "a", "=", "0", ";", "if", "(", "a", ")", "a", "=", "5", ";",
       "a", "=", "a", "+", "1", ";", "return", "a", ";">>,
     <<"int", "a", "=", "2", ";", "if", "(", "a", ")", "a", "=", "5", ";",
       "a", "=", "a", "+", "1", ";">>,
     <<"int", "a", "=", "0", ";", "if", "(", "a", ")", "a", "=", "5", ";",
       "else", "a", "=", "7", ";", "a", "=", "a", "+", "1", ";">>,
     <<"int", "i", "=", "0", ";", "int", "j", "=", "0", ";", "for", "(", "i",
       "=", "0", ";", "i", "<=", "2", ";", "i", "=", "i", "+", "1", ")",
       "j", "=", "i", "+", "j", ";", "return", "j", ";">>,
     <<"for", "(", ";", ";", ")", "{", "return", "3", ";", "}", "return",
       "5", ";">>,
     <<"int", "i", "=", "0", ";", "while", "(", "i", "<", "2", ")", "i", "=",
       "i", "+", "1", ";", "return", "i", ";">>,
     <<"int", "i", "=", "0", ";", "for", "(", ";", "i", "<", "2", ";", "i",
       "=", "i", "+", "1", ")", "{", ";", "}", "return", "5", ";">>,
     <<"int", "a", ";", "for", "(", "a", "=", "3", ";", ";", "a", "=", "a",
       "-", "1", ")", "if", "(", "a", "==", "1", ")", "return", "2",
       "*", "a", ";">>,
     <<"int", "i", "=", "5", ";", "while", "(", "0", ")", "i", "=", "1", ";",
       "i", ";">>,
     <<"int", "i", "=", "0", ",", "n", "=", "0", ";", "while", "(", "(", "n",
       "=", "n", "+", "1", ")", "<", "3", ")", "i", "=", "i", "+", "2",
       ";", "return", "i", "*", "n", ";">>,
     <<"int", "i", "=", "0", ";", "for", "(", ";", "i", "<", "2", ";", ")",
       "i", "=", "i", "+", "1", ";">>,
     <<"int", "a", "=", "1", ";", "int", "a", "=", "2", ";", "return", "a",
       ";">>,
     <<"int", "a", "=", "1", ";", "int", "b", "=", "a", ";", "int", "a", "=",
       "5", ";", "return", "a", "+", "b", ";">>,
     <<"int", "a", ";", "int", "a", ";">>,
     <<"int", "x", "=", "3", ",", "y", "=", "5", ";", "return", "*", "(",
       "&", "x", "+", "1", ")", ";">>,
     <<"0", "==", "1", ";">>,
     <<"42", "==", "42", ";">>,
     <<"1", ";", "if", "(", "0", ")", "2", ";">>,
     <<"7", ";", ";">>,
     <<"3", ";", "{", "}">>}

\* sources that do not fit the grammar, byte by byte
Malformed ==
    {<<"1", "+">>,
     Spell("return") \o <<";">> \o Spell("return") \o <<";">>,
     <<"1">>,
     <<"(", "1", ";">>,
     <<"1", " ", "2", ";">>,
     <<"1", "+", ";">>,
     <<")">>,
     <<"{", "1", ";">>,
     <<"i", "f", " ", "1", ";">>,
     <<"i", "f", "(", "1", ";">>,
     <<"f", "o", "r", "(", ";", ";", "1", ";", ")", ";">>,
     <<"w", "h", "i", "l", "e", "(", "1", ")">>,
     <<"i", "n", "t", " ", "a", " ", "b", ";">>,
     <<"i", "n", "t", " ", "a", "=", ";">>,
     <<"1", ";", "2", "*", "*", "}">>,
     <<"1", ";", "2">>}

\* test.sh:54-55  a program of the tests that declares nothing
Undeclared ==
    <<"a", "=", "3", ";", "z", "=", "5", ";", "return", "a", "+", "z", ";">>

\* one source for each diagnostic of tokenize and of the declarations, and
\* for the panic, each after a statement that is well formed
Stops ==
    {Text(<<"return", "1", ";">>) \o <<"@">>,
     Text(<<"return", "1", ";">>) \o MaxInt64Digits \o <<"0", ";">>,
     Text(<<"int", "a", ";", "a">>) \o <<"-", "=", "1", ";">>,
     Text(<<"int", "a", ";", "int", ";">>),
     Text(<<"int", "a", ",", "*", "p", ";", "p", "+", "p", ";">>)}

ProgSources ==
    {Text(d \o s) : d \in Declarations, s \in Statements}
    \cup Stops
    \cup {Text(d \o s \o t) :
            d \in Declarations, s \in Statements, t \in Statements}
    \cup {<<"a">>, <<"*", "1", ";">>, <<"&", "3", ";">>,
          <<"1", "=", "2", ";">>}
    \cup {Text(ws) : ws \in Programs}
    \cup Malformed
    \cup {Text(Undeclared)}
    \cup {Text(<<"int", "a", ";">> \o e) :
            e \in {<<"-", "a", "=", "1", ";">>,
                   <<"a", "+", "1", "=", "2", ";">>,
                   <<"return", "&", "(", "a", "=", "1", ")", ";">>,
                   <<"(", "a", ")", "=", "1", ";", "*", "&", "a", "=", "2", ";">>}}

\* SpecDecl: programs of declarations, with names declared again, with
\* several declarators, and with none
DeclPrograms ==
    {<<"int", "a", "=", "1", ";", "int", "a", "=", "2", ";", "return", "a",
       ";">>,
     <<"int", "a", "=", "1", ";", "int", "b", "=", "a", ";", "int", "a", "=",
       "5", ";", "return", "a", "+", "b", ";">>,
     <<"int", "a", ";", "int", "a", ";">>,
     <<"int", "a", ",", "a", ";">>,
     <<"int", "a", "=", "1", ",", "a", "=", "a", "+", "1", ";", "return",
       "a", ";">>,
     <<"{", "int", "a", "=", "1", ";", "{", "int", "a", "=", "2", ";", "}",
       "return", "a", ";", "}">>,
     <<"int", "x", "=", "3", ",", "y", "=", "5", ";", "return", "*", "(",
       "&", "x", "+", "1", ")", ";">>,
     <<"int", "x", "=", "3", ";", "int", "y", "=", "5", ";", "return", "*",
       "(", "&", "y", "-", "1", ")", ";">>,
     <<"int", "a", "=", "1", ",", "b", "=", "2", ",", "c", "=", "3", ";",
       "return", "a", ";">>,
     <<"int", "a", "=", "1", ";", "int", "*", "p", "=", "&", "a", ";", "int",
       "b", "=", "7", ";", "return", "*", "(", "p", "+", "2", ")", ";">>,
     <<"int", "a", "=", "4", ";", "a", "=", "a", "+", "1", ";", "int", "b",
       "=", "a", ";", "return", "b", ";">>,
     <<"int", "a", ",", "b", ",", "*", "p", ";", "p", "=", "&", "b", ";",
       "*", "p", "=", "3", ";", "return", "b", ";">>,
     <<"int", ";">>,
     <<"int", ";", "return", "1", ";">>,
     <<"int", "a", ";", "int", ";", "return", "a", ";">>,
     <<"int", "*", ";">>,
     <<"int", "a", ",", ";">>,
     <<"int", "a", "=", "1", ";", "int", "1", ";">>,
     <<"int", "a", "b", ";">>,
     <<"int", "int", "a", ";">>,
     <<"return", "1", ";", "int", "a", ";">>}

DeclSources ==
    {Text(ws) : ws \in DeclPrograms}
    \cup {Text(d \o s) : d \in Declarations, s \in Statements}

InitDecl == InitWith(DeclSources, ArgOrders)
SpecDecl == InitDecl /\ [][Next]_vars

InitProg == InitWith(ProgSources, ArgOrders)
SpecProg == InitProg /\ [][Next]_vars

(***************************************************************************)
(* Properties                                                              *)
(***************************************************************************)
\* the machine is about to execute the line `line`
At(line) == cpu.state = "run" /\ stdout[cpu.pc] = line

\* the lines gen prints around the statements
Prologue ==
    <<Ins(".globl main"), Ins("main:"), Ins("push %rbp"),
      Ins("mov %rsp, %rbp"), InsA("sub $a, %rsp", stackSize)>>
Epilogue ==
    <<InsL("label", LReturn), Ins("mov %rbp, %rsp"), Ins("pop %rbp"),
      Ins("ret")>>

\* stdout holds a complete main function
CompleteMain ==
    /\ Len(stdout) >= Len(Prologue) + Len(Epilogue)
    /\ SubSeq(stdout, 1, Len(Prologue)) = Prologue
    /\ SubSeq(stdout, Len(stdout) - Len(Epilogue) + 1, Len(stdout)) = Epilogue

\* stderr holds one diagnostic of the compiler
OneDiagnostic ==
    /\ Len(stderr) = 1
    /\ stderr[1] # NilDereference
    /\ stderr[1].msg # ""
    /\ stderr[1].carets >= 1

\* C1: a run that has ended has written a complete main function and exited
\* with 0, or has written a diagnostic and exited with 1; it has not ended
\* in any other way, whatever the source holds.
C1_TwoOutcomes ==
    pc = "exited" =>
        \/ exitCode = 0 /\ CompleteMain /\ stderr = <<>>
        \/ exitCode = 1 /\ OneDiagnostic

\* the program is a single expression statement
OneExpression == Len(body) = 1 /\ body[1].kind = "NodeExprStmt"

ArithKinds == {"NodeAdd", "NodeSub", "NodeMul", "NodeDiv", "NodeEql",
               "NodeNeq", "NodeLss", "NodeLeq"}

RECURSIVE Arithmetic(_)
\* an expression of literals, unary minus, arithmetic and comparisons
Arithmetic(n) ==
    CASE n.kind = "NodeNum" -> TRUE
      [] n.kind = "NodeNeg" -> Arithmetic(n.lhs)
      [] n.kind \in ArithKinds -> Arithmetic(n.lhs) /\ Arithmetic(n.rhs)
      [] OTHER -> FALSE

\* a / b in C: the q with a = q * b + r, |r| < |b|, and r is 0 or has the
\* sign of a
CQuotient(a, b) ==
    CHOOSE q \in -Abs(a)..Abs(a) :
        LET r == a - q * b
        IN  Abs(r) < Abs(b) /\ (r = 0 \/ (r < 0) = (a < 0))

\* a value of C, or none where the expression divides by zero
Value(v) == [defined |-> TRUE, v |-> v]
Undefined == [defined |-> FALSE, v |-> 0]

CBinary(kind, x, y) ==
    CASE kind = "NodeAdd" -> Value(x + y)
      [] kind = "NodeSub" -> Value(x - y)
      [] kind = "NodeMul" -> Value(x * y)
      [] kind = "NodeDiv" -> IF y = 0 THEN Undefined ELSE Value(CQuotient(x, y))
      [] kind = "NodeEql" -> Value(Bit(x = y))
      [] kind = "NodeNeq" -> Value(Bit(x # y))
      [] kind = "NodeLss" -> Value(Bit(x < y))
      [] kind = "NodeLeq" -> Value(Bit(x <= y))

RECURSIVE CValue(_)
\* the value of an arithmetic expression in C
CValue(n) ==
    IF n.kind = "NodeNum" THEN Value(n.value)
    ELSE IF n.kind = "NodeNeg"
    THEN [CValue(n.lhs) EXCEPT !.v = -@]
    ELSE LET x == CValue(n.lhs)
             y == CValue(n.rhs)
         IN  IF ~x.defined \/ ~y.defined THEN Undefined
             ELSE CBinary(n.kind, x.v, y.v)

\* C2: when the machine has executed the instructions genExpr printed for
\* an arithmetic expression (literals, unary minus, + - * / and the
\* comparisons, no division by zero), RAX holds the value the expression
\* has in C: a comparison gives 0 or 1, "<" is lhs < rhs, "/" is the signed
\* quotient.
C2_ValueInRax ==
    (OneExpression /\ Arithmetic(body[1].lhs) /\ At(InsL("label", LReturn)))
        => /\ CValue(body[1].lhs).defined
           /\ cpu.rax = CValue(body[1].lhs).v

\* the machine has run (-7 / 2) < 3 or the like: a signed division that
\* rounds toward zero under a comparison that holds
C2_Witness ==
    /\ OneExpression
    /\ Arithmetic(body[1].lhs)
    /\ At(InsL("label", LReturn))
    /\ body[1].lhs.kind = "NodeLss"
    /\ body[1].lhs.lhs.kind = "NodeDiv"
    /\ CValue(body[1].lhs.lhs) = Value(-3)
    /\ cpu.rax = 1

\* the precedence level of a binary operator, loosest first
Level(lexeme) ==
    CASE lexeme = "=" -> 1
      [] lexeme \in {"==", "!="} -> 2
      [] lexeme \in {"<", "<=", ">", ">="} -> 3
      [] lexeme \in {"+", "-"} -> 4
      [] lexeme \in {"*", "/"} -> 5
      [] OTHER -> 0
UnaryLevel == Level("*") + 1
PrimaryLevel == UnaryLevel + 1

\* the node kind the parser is to build for a binary operator
KindOf(lexeme) ==
    CASE lexeme = "+" -> "NodeAdd"
      [] lexeme = "-" -> "NodeSub"
      [] lexeme = "*" -> "NodeMul"
      [] lexeme = "/" -> "NodeDiv"
      [] lexeme = "==" -> "NodeEql"
      [] lexeme = "!=" -> "NodeNeq"
      [] lexeme \in {"<", ">"} -> "NodeLss"
      [] lexeme \in {"<=", ">="} -> "NodeLeq"
      [] OTHER -> ""

UnaryKindOf(lexeme) ==
    CASE lexeme = "-" -> "NodeNeg"
      [] lexeme = "*" -> "NodeDeref"
      [] lexeme = "&" -> "NodeAddr"
      [] OTHER -> ""

\* token i ends an operand, so that a "+" or "-" after it is binary
OperandEnd(i) == tokens[i].kind \in {"NUM", "IDENT"} \/ tokens[i].lexeme = ")"

\* token i is a unary plus (for which the parser builds no node)
UnaryPlusAt(i) == tokens[i].lexeme = "+" /\ (i = 1 \/ ~OperandEnd(i - 1))

\* The tokens a..b a subtree stands for and the level of its outermost
\* operator; ok is false if the subtree is not the grammar's tree for them.
Covers(ok, a, b, lvl) == [ok |-> ok, a |-> a, b |-> b, lvl |-> lvl]

RECURSIVE Wrap(_)
\* parentheses around an expression make it a primary; a unary plus before
\* a unary makes a unary
Wrap(s) ==
    IF ~s.ok \/ s.a = 1 THEN s
    ELSE IF tokens[s.a - 1].lexeme = "(" /\ tokens[s.b + 1].lexeme = ")"
    THEN Wrap(Covers(TRUE, s.a - 1, s.b + 1, PrimaryLevel))
    ELSE IF s.lvl >= UnaryLevel /\ UnaryPlusAt(s.a - 1)
    THEN Wrap(Covers(TRUE, s.a - 1, s.b, UnaryLevel))
    ELSE s

\* the operand the source names, where the parser scaled it by 8 for
\* pointer arithmetic: the product carries the token of the "+" or "-"
Unscaled(n, k) ==
    IF n.kind = "NodeMul" /\ n.token = k /\ tokens[k].lexeme \in {"+", "-"}
    THEN n.lhs ELSE n

\* the tree of a binary operator at token k over the operands left and
\* right (in source order): the operands are next to the operator, the left
\* one binds at least as tightly and the right one more tightly
LeftAssociative(k, left, right) ==
    Wrap(Covers(/\ left.ok /\ right.ok
                /\ left.b + 1 = k /\ right.a = k + 1
                /\ left.lvl >= Level(tokens[k].lexeme)
                /\ right.lvl > Level(tokens[k].lexeme),
                left.a, right.b, Level(tokens[k].lexeme)))

\* the tree of an assignment: "=" follows the left operand, which binds
\* more tightly; the right operand may be an assignment
RightAssociative(left, right) ==
    Wrap(Covers(/\ left.ok /\ right.ok
                /\ tokens[left.b + 1].lexeme = "="
                /\ right.a = left.b + 2
                /\ left.lvl > Level("=")
                /\ right.lvl >= Level("="),
                left.a, right.b, Level("=")))

RECURSIVE Shape(_)
Shape(n) ==
    CASE n.kind = "NodeNum" ->
           Wrap(Covers(tokens[n.token].kind = "NUM", n.token, n.token,
                       PrimaryLevel))
      [] n.kind = "NodeVar" ->
           Wrap(Covers(tokens[n.token].kind = "IDENT", n.token, n.token,
                       PrimaryLevel))
      [] n.kind \in {"NodeNeg", "NodeDeref", "NodeAddr"} ->
           LET x == Shape(n.lhs)
           IN  Wrap(Covers(/\ x.ok
                           /\ UnaryKindOf(tokens[n.token].lexeme) = n.kind
                           /\ x.a = n.token + 1
                           /\ x.lvl >= UnaryLevel,
                           n.token, x.b, UnaryLevel))
      [] n.kind = "NodeAsg" -> RightAssociative(Shape(n.lhs), Shape(n.rhs))
      [] n.kind = "NodeDiv" /\ tokens[n.token].lexeme = "-" ->
           \* the difference of two pointers, divided by 8
           Shape(n.lhs)
      [] n.kind \in ArithKinds /\ KindOf(tokens[n.token].lexeme) = n.kind ->
           LET x == Shape(Unscaled(n.lhs, n.token))
               y == Shape(Unscaled(n.rhs, n.token))
           IN  IF tokens[n.token].lexeme \in {">", ">="}
               THEN LeftAssociative(n.token, y, x)
               ELSE IF tokens[n.token].lexeme = "+" /\ y.ok /\ y.b < n.token
               THEN LeftAssociative(n.token, y, x)
               ELSE LeftAssociative(n.token, x, y)
      [] OTHER -> Covers(FALSE, 0, 0, 0)

\* the expression of a statement stands for all the tokens of the statement
WholeStatement(s) ==
    /\ s.ok
    /\ tokens[s.b + 1].lexeme = ";"
    /\ s.a = 1 \/ tokens[s.a - 1].lexeme \in {";", "return"}

\* C3: the tree of every expression statement and return statement is the
\* one the grammar dictates: each operator has its operands next to it in
\* the source, "=" groups to the right and every other binary operator to
\* the left, an operand binds more tightly than its operator unless it is
\* in parentheses, and unary operators nest to the right.
C3_GrammarShape ==
    \A i \in 1..Len(body) :
        body[i].kind \in {"NodeExprStmt", "NodeReturn"}
            => WholeStatement(Shape(body[i].lhs))

\* 1 - 2 - 3 was parsed as (1 - 2) - 3
C3_Witness ==
    \E i \in 1..Len(body) :
        /\ body[i].kind = "NodeExprStmt"
        /\ body[i].lhs.kind = "NodeSub"
        /\ body[i].lhs.lhs.kind = "NodeSub"
        /\ body[i].lhs.rhs.kind = "NodeNum"
        /\ body[i].lhs.rhs.value = 3
        /\ body[i].lhs.lhs.lhs.value = 1

\* the kind of the token for two bytes of the source, "" if they are not
\* one of the two-byte operators
TwoByteKind(x, y) ==
    CASE x = "=" /\ y = "=" -> "EQL"
      [] x = "!" /\ y = "=" -> "NEQ"
      [] x = "<" /\ y = "=" -> "LEQ"
      [] x = ">" /\ y = "=" -> "GEQ"
      [] OTHER -> ""

\* the scan position is at the first byte of "==", "!=", "<=" or ">="
AtTwoByteOperator ==
    /\ pc = "tokenize"
    /\ p + 1 < Len(source)
    /\ TwoByteKind(source[p + 1], source[p + 2]) # ""

\* C4: a step of the tokenizer whose scan position is at the first byte of
\* "==", "!=", "<=" or ">=" appends exactly one token, of EQL, NEQ, LEQ or
\* GEQ kind and two bytes long, and moves past both bytes; this also where
\* the two bytes are the last of the source.
C4_MaximalMunch ==
    [][AtTwoByteOperator =>
          /\ tokens' = Append(tokens,
                 [kind |-> TwoByteKind(source[p + 1], source[p + 2]),
                  value |-> 0, begin |-> p, length |-> 2,
                  lexeme |-> source[p + 1] \o source[p + 2]])
          /\ p' = p + 2
          /\ pc' = "tokenize"]_vars

\* the last two bytes of a source are "<=" and were made one token
C4_Witness ==
    /\ Len(source) > 2
    /\ p = Len(source)
    /\ tokens # <<>>
    /\ tokens[Len(tokens)].kind = "LEQ"
    /\ tokens[Len(tokens)].begin = Len(source) - 2
    /\ tokens[Len(tokens)].length = 2

\* RSP right after the prologue's sub $stackSize, %rsp
FrameBase == StackTop - 8 - 8 - stackSize

\* C5: when the machine is at a statement boundary of the emitted program
\* (before the first line of a statement or after its last, top-level or
\* nested, on any path it takes), as many words have been popped as were
\* pushed: RSP is where the prologue left it.
C5_StackBalanced ==
    (cpu.state = "run" /\ cpu.pc \in marks) => cpu.rsp = FrameBase

\* the machine is at the end of the body of a loop, about to jump back,
\* after the pushes and pops of the body
C5_Witness ==
    /\ cpu.state = "run"
    /\ cpu.pc \in marks
    /\ stdout[cpu.pc].op = "jmp"
    /\ stdout[cpu.pc].l[1] = ".L.begin"
    /\ \E i \in 1..cpu.pc : stdout[i] = push
    /\ cpu.rsp = FrameBase

\* gen has run assignLvarOffsets
Laid == genpos >= 1

\* C6: after assignLvarOffsets, with n locals, stackSize is
\* (8n + 15) / 16 * 16: a multiple of 16 that is at least 8n and less than
\* 8n + 16.
C6_FrameAligned ==
    Laid =>
        /\ stackSize = ((8 * Len(locals) + 15) \div 16) * 16
        /\ stackSize % 16 = 0
        /\ stackSize >= 8 * Len(locals)
        /\ stackSize < 8 * Len(locals) + 16

\* three locals: 24 bytes, rounded up to 32
C6_Witness == Laid /\ Len(locals) = 3 /\ stackSize = 32

\* the lines of stdout that define a numbered label
LabelLines ==
    {i \in 1..Len(stdout) : stdout[i].op = "label" /\ stdout[i].l # LReturn}

\* C7: every if, for and while statement has its own label index: no
\* label is defined twice in the output, the indices are the positive
\* integers below the counter, which started at 1, and in a complete
\* program each of them is in use.
C7_UniqueLabels ==
    /\ counter >= 1
    /\ \A i \in LabelLines : stdout[i].l[2] >= 1 /\ stdout[i].l[2] < counter
    /\ \A i, j \in LabelLines : i # j => stdout[i].l # stdout[j].l
    /\ (pc = "exited" /\ exitCode = 0) =>
         {stdout[i].l[2] : i \in LabelLines} = 1..(counter - 1)

\* an if nested in an if, or two statements in a row, got the indices 1, 2
C7_Witness ==
    /\ counter = 3
    /\ \E i, j \in LabelLines :
         /\ i < j
         /\ stdout[i].l = LElse(2)
         /\ stdout[j].l = LElse(1)

RECURSIVE Nodes(_)
\* the nodes of a tree
Nodes(n) ==
    IF n.kind = "nil" THEN {}
    ELSE {n} \cup UNION {Nodes(n[ChildSlots[k]]) : k \in 1..Len(ChildSlots)}
             \cup UNION {Nodes(n.body[k]) : k \in 1..Len(n.body)}

\* the nodes of the program
ProgramNodes == UNION {Nodes(body[i]) : i \in 1..Len(body)}

ExpressionKinds ==
    ArithKinds \cup {"NodeNeg", "NodeAsg", "NodeAddr", "NodeDeref", "NodeVar",
                     "NodeNum"}

\* parse has returned
ParseReturned == pc = "gen" \/ genpos >= 1

\* C8: when parse has returned, every expression node of the program, the
\* nodes of the pointer-arithmetic rewrites among them, has a type, and a
\* variable node has the type of its Object.
C8_TypedAst ==
    ParseReturned =>
        \A n \in ProgramNodes :
            n.kind \in ExpressionKinds =>
                /\ n.tp # NoType
                /\ n.kind = "NodeVar" => n.tp = Object(n.variable, locals).tp

\* a program with the scaling product of p + 1 and a pointer variable
C8_Witness ==
    /\ ParseReturned
    /\ \E n \in ProgramNodes :
         n.kind = "NodeMul" /\ tokens[n.token].lexeme = "+" /\ n.tp = tpint
    /\ \E n \in ProgramNodes : n.kind = "NodeVar" /\ n.tp = ptrto(tpint)

\* the names of the Objects
LocalNames == {locals[k].name : k \in 1..Len(locals)}

\* the diagnostic d is at the token t
DiagAt(d, t) == d.begin = tokens[t].begin /\ d.carets = tokens[t].length

C10_DerefAddr ==
    /\ \A n \in ProgramNodes :
         /\ (n.kind = "NodeDeref" /\ n.tp # NoType) =>
                n.lhs.tp.kind = "TPPTR" /\ n.lhs.tp.base = n.tp
         /\ (n.kind = "NodeAddr" /\ n.tp # NoType) =>
                n.tp.kind = "TPPTR" /\ n.tp.base = n.lhs.tp
    /\ ParseReturned => \A n \in ProgramNodes :
         n.kind \in {"NodeDeref", "NodeAddr"} => n.tp # NoType
    /\ \A k \in 1..Len(stderr) :
         stderr[k].msg = "invalid pointer dereference" =>
             /\ pc = "exited"
             /\ exitCode = 1
             /\ \E t \in 1..Len(tokens) :
                  tokens[t].lexeme = "*" /\ DiagAt(stderr[k], t)
    /\ (source = <<"*", "1", ";">> /\ pc = "exited") =>
         /\ exitCode = 1
         /\ stderr = <<Diag("invalid pointer dereference", 0, 1)>>

\* the run of a program with locals ended at the dereference of an int
C10_Witness ==
    /\ pc = "exited"
    /\ exitCode = 1
    /\ Len(stderr) = 1
    /\ stderr[1].msg = "invalid pointer dereference"
    /\ locals # <<>>
    /\ source[stderr[1].begin + 1] = "*"

\* the nodes of which an address is taken: the operands of "&" and the left
\* sides of "="
LvalueOperands ==
    {n.lhs : n \in {m \in ProgramNodes : m.kind \in {"NodeAddr", "NodeAsg"}}}

Addressable(n) == n.kind \in {"NodeVar", "NodeDeref"}

\* gen has run to its end or to an exit
GenEnded == pc = "exited" /\ genpos >= 1

\* C11: VAR and DEREF are the addressable kinds.  Code generation of a
\* program in which the operand of a "&" or the left side of a "=" is of
\* another kind ends with exit code 1 and the one diagnostic "not
\* addressable", at the token of such a node; of a program in which all of
\* them are VAR or DEREF it ends with exit code 0 and no diagnostic.
C11_NotAddressable ==
    /\ \A k \in 1..Len(stderr) :
         stderr[k].msg = "not addressable" =>
             /\ pc = "exited"
             /\ exitCode = 1
             /\ \E n \in LvalueOperands :
                  ~Addressable(n) /\ DiagAt(stderr[k], n.token)
    /\ GenEnded =>
         IF \A n \in LvalueOperands : Addressable(n)
         THEN exitCode = 0 /\ stderr = <<>>
         ELSE /\ exitCode = 1
              /\ Len(stderr) = 1
              /\ stderr[1].msg = "not addressable"
    /\ (source = <<"&", "3", ";">> /\ pc = "exited") =>
         exitCode = 1 /\ stderr = <<Diag("not addressable", 1, 1)>>
    /\ (source = <<"1", "=", "2", ";">> /\ pc = "exited") =>
         exitCode = 1 /\ stderr = <<Diag("not addressable", 0, 1)>>

\* gen stopped at the sum on the left of a "=", after the prologue
C11_Witness ==
    /\ GenEnded
    /\ exitCode = 1
    /\ stderr # <<>>
    /\ stderr[1].msg = "not addressable"
    /\ stdout # <<>>
    /\ \E n \in LvalueOperands : n.kind = "NodeAdd" /\ DiagAt(stderr[1], n.token)

\* the lexemes the parser calls skip with
SkipLexemes == {";", "(", ")", "}", "int", "=", ","}

ExpectedMsg(x) == "expected \"" \o x \o "\""

\* the diagnostic d points at the token t: at its offset, under its length
\* (one caret under the empty token at the end)
Located(d, t) ==
    /\ d.begin = tokens[t].begin
    /\ d.carets = IF tokens[t].length = 0 THEN 1 ELSE tokens[t].length

\* the token t is not what the diagnostic d says was expected
Offends(d, t) ==
    IF d.msg = "expected an expression"
    THEN tokens[t].kind \notin {"NUM", "IDENT"} /\ tokens[t].lexeme # "("
    ELSE \E x \in SkipLexemes : d.msg = ExpectedMsg(x) /\ tokens[t].lexeme # x

SyntaxDiagnostic(d) ==
    d.msg = "expected an expression" \/ \E x \in SkipLexemes : d.msg = ExpectedMsg(x)

\* the one diagnostic of the run of a source
Rejected(src, msg, begin, carets) ==
    (source = src /\ pc = "exited") =>
        /\ exitCode = 1
        /\ stderr = <<[msg |-> msg, begin |-> begin, carets |-> carets]>>

\* C12: a diagnostic of skip or of primary ends the run with exit code 1,
\* it is the only one, it is located at a token that is not the expected
\* one (for primary: that is none of "(", NUM, IDENT), and nothing after
\* that token was parsed: parse is not past it, no node of the program is
\* of a later token, and nothing was generated.  The token is the first
\* that does not fit: the END token of 1+, the second ";" of
\* return;return; and so on for each malformed source.
C12_FirstOffendingToken ==
    /\ \A k \in 1..Len(stderr) :
         SyntaxDiagnostic(stderr[k]) =>
             /\ pc = "exited"
             /\ exitCode = 1
             /\ Len(stderr) = 1
             /\ stdout = <<>>
             /\ genpos = 0
             /\ \E t \in 1..Len(tokens) :
                  /\ Located(stderr[k], t)
                  /\ Offends(stderr[k], t)
                  /\ token <= t
                  /\ \A n \in ProgramNodes : n.token <= t
    /\ Rejected(<<"1", "+">>, "expected an expression", 2, 1)
    /\ Rejected(Spell("return") \o <<";">> \o Spell("return") \o <<";">>,
                "expected an expression", 6, 1)
    /\ Rejected(<<"1">>, ExpectedMsg(";"), 1, 1)
    /\ Rejected(<<"(", "1", ";">>, ExpectedMsg(")"), 2, 1)
    /\ Rejected(<<"1", " ", "2", ";">>, ExpectedMsg(";"), 2, 1)
    /\ Rejected(<<"1", "+", ";">>, "expected an expression", 2, 1)
    /\ Rejected(<<")">>, "expected an expression", 0, 1)
    /\ Rejected(<<"{", "1", ";">>, ExpectedMsg("}"), 3, 1)
    /\ Rejected(<<"i", "f", " ", "1", ";">>, ExpectedMsg("("), 3, 1)
    /\ Rejected(<<"i", "f", "(", "1", ";">>, ExpectedMsg(")"), 4, 1)
    /\ Rejected(<<"f", "o", "r", "(", ";", ";", "1", ";", ")", ";">>,
                ExpectedMsg(")"), 7, 1)
    /\ Rejected(<<"w", "h", "i", "l", "e", "(", "1", ")">>,
                "expected an expression", 8, 1)
    /\ Rejected(<<"i", "n", "t", " ", "a", " ", "b", ";">>, ExpectedMsg(","), 6, 1)
    /\ Rejected(<<"i", "n", "t", " ", "a", "=", ";">>,
                "expected an expression", 6, 1)
    /\ Rejected(<<"1", ";", "2", "*", "*", "}">>, "expected an expression", 5, 1)
    /\ Rejected(<<"1", ";", "2">>, ExpectedMsg(";"), 3, 1)

\* a statement was parsed, and the next one stopped the run at the END token,
\* where a ";" was expected
C12_Witness ==
    /\ pc = "exited"
    /\ exitCode = 1
    /\ stderr = <<Diag(ExpectedMsg(";"), Len(source), 0)>>
    /\ tokens[Len(tokens)].kind = "EOF"
    /\ Located(stderr[1], Len(tokens))
    /\ body # <<>>

(***************************************************************************)
(* What a program means.  The statements and expressions of the tree are   *)
(* executed as C executes them, on a memory of words at addresses.  A      *)
(* state of the execution: ok is false once the behaviour is undefined (a  *)
(* division by zero, the use of an indeterminate value, an access outside  *)
(* the stack, more than MaxRounds rounds of a loop); v is the value of the *)
(* last expression evaluated and known says that there is one and that it  *)
(* is determinate; mem holds the words stored so far; ret says that a      *)
(* return statement was executed.                                          *)
(***************************************************************************)
MaxRounds == 4

\* the address of the frame slot of the Object id: RBP of the frame is 16
\* below StackTop (the return address and the saved RBP)
Slot(id) == StackTop - 16 + offsets[id]

CStart == [ok |-> TRUE, known |-> FALSE, v |-> 0, mem |-> [a \in {} |-> 0],
           ret |-> FALSE, es |-> [done |-> FALSE, known |-> FALSE, v |-> 0]]

Stuck(st) == [st EXCEPT !.ok = FALSE]
Gives(st, v) == [st EXCEPT !.v = v, !.known = TRUE]
Usable(st) == st.ok /\ st.known

\* the word at the address a
CLoad(st, a) ==
    IF ~Mapped(a) THEN Stuck(st)
    ELSE IF a \in DOMAIN st.mem THEN Gives(st, st.mem[a])
    ELSE [st EXCEPT !.known = FALSE]

\* v is stored at the address a, and is the value of the assignment
CStore(st, a, v) ==
    IF ~Mapped(a) THEN Stuck(st)
    ELSE [Gives(st, v) EXCEPT !.mem = (a :> v) @@ st.mem]

\* a binary operator on the values of its operands, x evaluated before y
CApply(kind, x, y) ==
    IF ~Usable(x) \/ ~Usable(y) THEN Stuck(y)
    ELSE IF ~CBinary(kind, x.v, y.v).defined THEN Stuck(y)
    ELSE Gives(y, CBinary(kind, x.v, y.v).v)

CNegate(x) == IF ~Usable(x) THEN Stuck(x) ELSE Gives(x, -x.v)
CLoadAt(x) == IF ~Usable(x) THEN Stuck(x) ELSE CLoad(x, x.v)
CStoreAt(a, y) ==
    IF ~Usable(a) \/ ~Usable(y) THEN Stuck(y) ELSE CStore(y, a.v, y.v)

RECURSIVE CEval(_, _), CAddr(_, _), CAssign(_, _), CBinaryOf(_, _, _)

\* the object an lvalue designates
CAddr(n, st) ==
    CASE n.kind = "NodeVar" -> Gives(st, Slot(n.variable))
      [] n.kind = "NodeDeref" -> CEval(n.lhs, st)
      [] OTHER -> Stuck(st)

\* lhs = rhs: the object first, then the value
CAssign(n, a) == CStoreAt(a, CEval(n.rhs, [a EXCEPT !.known = FALSE]))

\* lhs op rhs, the left operand first
CBinaryOf(n, x, st) == CApply(n.kind, x, CEval(n.rhs, x))

\* the value of an expression
CEval(n, st) ==
    IF ~st.ok THEN st
    ELSE CASE n.kind = "NodeNum" -> Gives(st, n.value)
           [] n.kind = "NodeNeg" -> CNegate(CEval(n.lhs, st))
           [] n.kind = "NodeVar" -> CLoad(st, Slot(n.variable))
           [] n.kind = "NodeAddr" -> CAddr(n.lhs, st)
           [] n.kind = "NodeDeref" -> CLoadAt(CEval(n.lhs, st))
           [] n.kind = "NodeAsg" -> CAssign(n, CAddr(n.lhs, st))
           [] n.kind \in ArithKinds -> CBinaryOf(n, CEval(n.lhs, st), st)
           [] OTHER -> Stuck(st)

Returning(st) == [st EXCEPT !.ret = TRUE]
\* es: the value of the last expression statement executed
Stated(st) ==
    IF st.ok THEN [st EXCEPT !.es = [done |-> TRUE, known |-> st.known,
                                     v |-> st.v]]
    ELSE st

RECURSIVE CExec(_, _), CSeq(_, _, _), CBranch(_, _), CLoop(_, _, _),
          CRound(_, _, _), CStep(_, _, _)

\* the statements of a list in order, from the i-th
CSeq(stmts, i, st) ==
    IF i > Len(stmts) \/ ~st.ok \/ st.ret THEN st
    ELSE CSeq(stmts, i + 1, CExec(stmts[i], st))

\* if: c is the state after the condition
CBranch(n, c) ==
    IF ~Usable(c) THEN Stuck(c)
    ELSE IF c.v # 0 THEN CExec(n.thenBranch, c)
    ELSE IF n.elseBranch.kind # "nil" THEN CExec(n.elseBranch, c)
    ELSE c

\* for: the increment after the body (b), then the next round
CStep(n, b, fuel) ==
    IF ~b.ok \/ b.ret THEN b
    ELSE IF n.increment.kind # "nil"
    THEN CLoop(n, CEval(n.increment, b), fuel - 1)
    ELSE CLoop(n, b, fuel - 1)

\* for: the body after the condition (c)
CRound(n, c, fuel) ==
    IF ~Usable(c) THEN Stuck(c)
    ELSE IF c.v = 0 THEN c
    ELSE IF fuel = 0 THEN Stuck(c)
    ELSE CStep(n, CExec(n.thenBranch, c), fuel)

\* for: a round, from its condition; no condition is a true one
CLoop(n, st, fuel) ==
    IF ~st.ok \/ st.ret THEN st
    ELSE IF n.condition.kind # "nil"
    THEN CRound(n, CEval(n.condition, st), fuel)
    ELSE IF fuel = 0 THEN Stuck(st)
    ELSE CStep(n, CExec(n.thenBranch, st), fuel)

\* a statement
CExec(n, st) ==
    IF ~st.ok \/ st.ret THEN st
    ELSE CASE n.kind = "NodeExprStmt" -> Stated(CEval(n.lhs, st))
           [] n.kind = "NodeReturn" -> Returning(CEval(n.lhs, st))
           [] n.kind = "NodeBlock" -> CSeq(n.body, 1, st)
           [] n.kind = "NodeIf" -> CBranch(n, CEval(n.condition, st))
           [] n.kind = "NodeFor" ->
                IF n.initializer.kind # "nil"
                THEN CLoop(n, CExec(n.initializer, st), MaxRounds)
                ELSE CLoop(n, st, MaxRounds)
           [] OTHER -> Stuck(st)

\* what the program means
Meaning == CSeq(body, 1, CStart)

\* the machine has run the statements and is at the epilogue, past its
\* label: it fell through to it or jumped to it
AtEpilogue == cpu.state = "run" /\ cpu.pc = Target(LReturn)

\* the memory of the machine holds every word the program stored
SameMemory(st) ==
    \A a \in DOMAIN st.mem : a \in DOMAIN cpu.mem /\ cpu.mem[a] = st.mem[a]

\* RAX holds the value the program left
SameValue(st) == st.known => cpu.rax = st.v

\* the program takes no address and follows no pointer
NoPointers == \A n \in ProgramNodes : n.kind \notin {"NodeAddr", "NodeDeref"}

\* the slots of the locals
Slots == {Slot(locals[k].id) : k \in 1..Len(locals)}

\* the machine is about to store RAX at the address a
StoreTo(a) ==
    /\ cpu.state = "run"
    /\ stdout[cpu.pc].op = "mov %rax, (%rdi)"
    /\ cpu.rdi = a

\* a step of the machine leaves the word of every local as it is, but for
\* the slot it stores to, which then holds the value stored, RAX
SlotsKeep ==
    (cpu.state = "run" /\ Laid) =>
        \A a \in Slots :
            IF StoreTo(a)
            THEN cpu'.mem[a] = cpu.rax /\ cpu'.rax = cpu.rax
            ELSE a \in DOMAIN cpu.mem =>
                    a \in DOMAIN cpu'.mem /\ cpu'.mem[a] = cpu.mem[a]

\* the word of the local named name, at the epilogue
Holding(name, v) ==
    \E k \in 1..Len(locals) :
        /\ locals[k].name = name
        /\ Slot(locals[k].id) \in DOMAIN cpu.mem
        /\ cpu.mem[Slot(locals[k].id)] = v

\* every local has a slot of its own, inside the frame
OwnSlots ==
    /\ \A i, j \in 1..Len(locals) :
         i # j => Slot(locals[i].id) # Slot(locals[j].id)
    /\ \A a \in Slots : a >= FrameBase /\ a + 8 <= StackTop - 16

\* C13: a local holds the value most recently assigned to it.  The locals
\* have slots of their own in the frame; no step of the machine changes
\* the word of a local other than a store to its slot, which leaves the
\* stored value there and in RAX; and at the end of a program without
\* pointers every local holds the value the program assigned to it last
\* and RAX the value of the last expression, so that a=b=3 leaves 3 in a
\* and in b.
C13_LocalsHold ==
    /\ [](Laid => OwnSlots)
    /\ [][SlotsKeep]_vars
    /\ []((AtEpilogue /\ Meaning.ok /\ NoPointers) =>
            SameMemory(Meaning) /\ SameValue(Meaning))
    /\ []((AtEpilogue
            /\ source = Text(<<"int", "a", ",", "b", ";", "a", "=", "b", "=",
                               "3", ";", "return", "a", "+", "b", ";">>)) =>
            Holding("a", 3) /\ Holding("b", 3) /\ cpu.rax = 6)

\* after a = 5 in a program with a = 1, b = 2: a holds 5, b still 2
C13_Witness ==
    /\ AtEpilogue
    /\ NoPointers
    /\ Meaning.ok
    /\ Holding("a", 5)
    /\ Holding("b", 2)
    /\ cpu.rax = 2
    /\ Meaning.mem = (Slot(1) :> 5) @@ (Slot(2) :> 2)

\* the machine is at the epilogue of the program ws
Ended(ws) == AtEpilogue /\ source = Text(ws)

\* the local named name holds the address of the local named target
PointsTo(name, target) ==
    \E k \in 1..Len(locals) :
        locals[k].name = target /\ Holding(name, Slot(locals[k].id))

\* C14: address-of and dereference are inverse on locals.  A program with
\* pointers whose behaviour is defined does not fault, and at its end the
\* memory holds the words it stored, through a name or through a pointer,
\* and RAX its value.  After int *y = &x the local y holds the address of
\* the slot of x, *y yields the current value of x, and a store through
\* *y is read from x.
C14_AddrDerefInverse ==
    /\ (AtEpilogue /\ Meaning.ok /\ ~NoPointers) =>
            SameMemory(Meaning) /\ SameValue(Meaning)
    /\ (cpu.state = "fault" /\ ~NoPointers) => ~Meaning.ok
    /\ Ended(<<"int", "x", "=", "3", ";", "int", "*", "y", "=", "&", "x", ";",
               "return", "*", "y", ";">>) =>
            cpu.rax = 3 /\ PointsTo("y", "x")
    /\ Ended(<<"int", "x", "=", "3", ";", "int", "*", "y", "=", "&", "x", ";",
               "x", "=", "7", ";", "return", "*", "y", ";">>) =>
            cpu.rax = 7 /\ Holding("x", 7)
    /\ Ended(<<"int", "x", "=", "3", ";", "int", "*", "y", "=", "&", "x", ";",
               "*", "y", "=", "5", ";", "return", "x", ";">>) =>
            cpu.rax = 5 /\ Holding("x", 5) /\ PointsTo("y", "x")
    /\ Ended(<<"int", "x", "=", "3", ";", "return", "*", "&", "x", ";">>) =>
            cpu.rax = 3

\* a store through a pointer to a pointer was read from the local
C14_Witness ==
    /\ AtEpilogue
    /\ Meaning.ok
    /\ PointsTo("z", "y")
    /\ PointsTo("y", "x")
    /\ Holding("x", 4)
    /\ cpu.rax = 4
    /\ SameMemory(Meaning)

\* main of the program ws has returned, and the exit status is v
Yields(ws, v) ==
    (cpu.state = "returned" /\ source = Text(ws)) => ExitStatus(cpu) = v

\* C15: a return statement that is executed takes control to the epilogue
\* with the value of its expression in RAX, and nothing after it is
\* executed: at the epilogue of a program that returned, RAX holds the
\* value returned and the memory what was stored up to the return.
\* return 1; 2; 3; yields 1 and 1; return 2; 3; yields 2.
C15_ReturnEnds ==
    /\ (AtEpilogue /\ Meaning.ok /\ Meaning.ret) =>
            /\ SameValue(Meaning)
            /\ SameMemory(Meaning)
    /\ Yields(<<"return", "1", ";", "2", ";", "3", ";">>, 1)
    /\ Yields(<<"1", ";", "return", "2", ";", "3", ";">>, 2)
    /\ Yields(<<"1", ";", "2", ";", "return", "3", ";">>, 3)
    /\ Yields(<<"{", "{", "1", ";", "{", "2", ";", "}", "return", "3", ";", "}",
                "}">>, 3)
    /\ Ended(<<"int", "a", "=", "1", ";", "return", "a", ";", "a", "=", "2",
               ";">>) => cpu.rax = 1 /\ Holding("a", 1)
    /\ Ended(<<"int", "a", "=", "1", ";", "{", "return", "a", "=", "4", ";",
               "}", "a", "=", "2", ";">>) => cpu.rax = 4 /\ Holding("a", 4)

\* the second of three statements returned 2
C15_Witness ==
    /\ AtEpilogue
    /\ Meaning.ok
    /\ Meaning.ret
    /\ Len(body) = 3
    /\ body[2].kind = "NodeReturn"
    /\ body[3].kind = "NodeExprStmt"
    /\ cpu.rax = 2

HasKind(kind) == \E n \in ProgramNodes : n.kind = kind

\* C16: for if (c) t else e the emitted code evaluates c once and executes
\* t when the value of c is not 0, and e (nothing without an else) when it
\* is 0, and goes on with the statement after the if: at the end of a
\* program with an if, RAX and the memory hold what the program left,
\* conditions with an assignment among them.
C16_OneBranch ==
    /\ (AtEpilogue /\ Meaning.ok /\ HasKind("NodeIf")) =>
            SameValue(Meaning) /\ SameMemory(Meaning)
    /\ Yields(<<"if", "(", "0", ")", "return", "2", ";", "return", "3", ";">>, 3)
    /\ Yields(<<"if", "(", "1", ")", "return", "2", ";", "return", "3", ";">>, 2)
    /\ Yields(<<"if", "(", "1", "-", "1", ")", "return", "2", ";", "return",
                "3", ";">>, 3)
    /\ Yields(<<"if", "(", "0", ")", "{", "1", ";", "2", ";", "return", "3",
                ";", "}", "else", "{", "return", "4", ";", "}">>, 4)
    /\ Yields(<<"if", "(", "1", ")", "{", "1", ";", "2", ";", "return", "3",
                ";", "}", "else", "{", "return", "4", ";", "}">>, 3)
    /\ Ended(<<"int", "a", "=", "0", ";", "if", "(", "a", "=", "a", "+", "1",
               ")", "a", "=", "a", "+", "5", ";", "else", "a", "=", "a", "+",
               "9", ";", "return", "a", ";">>) => cpu.rax = 6 /\ Holding("a", 6)
    /\ Ended(<<"int", "a", "=", "0", ";", "if", "(", "a", ")", "a", "=", "5",
               ";", "a", "=", "a", "+", "1", ";", "return", "a", ";">>) =>
            cpu.rax = 1 /\ Holding("a", 1)
    /\ Ended(<<"int", "a", "=", "2", ";", "if", "(", "a", ")", "a", "=", "5",
               ";", "a", "=", "a", "+", "1", ";">>) => Holding("a", 6)
    /\ Ended(<<"int", "a", "=", "0", ";", "if", "(", "a", ")", "a", "=", "5",
               ";", "else", "a", "=", "7", ";", "a", "=", "a", "+", "1", ";">>) =>
            Holding("a", 8)

\* the else branch of an if was executed, and then the statement after it
C16_Witness ==
    /\ AtEpilogue
    /\ Meaning.ok
    /\ ~Meaning.ret
    /\ \E i \in 1..Len(body) :
         body[i].kind = "NodeIf" /\ body[i].elseBranch.kind # "nil"
    /\ Holding("a", 8)
    /\ cpu.rax = 8

\* the lines of stdout that end a loop with no condition: the label
\* .L.end.N after a jmp .L.begin.N, with no je .L.end.N in the program
EndlessEnd(i) ==
    /\ i \in 2..Len(stdout)
    /\ stdout[i].op = "label"
    /\ stdout[i].l[1] = ".L.end"
    /\ stdout[i - 1] = InsL("jmp", LBegin(stdout[i].l[2]))
    /\ \A j \in 1..Len(stdout) : stdout[j] # InsL("je", stdout[i].l)

EndlessEnds == {i \in 1..Len(stdout) : EndlessEnd(i)}

\* C17: for (init; cond; inc) body and while (cond) body run init once and
\* then repeat: cond, out of the loop when it is 0, else body, inc and
\* back. At the end of a program with a loop, RAX and the memory hold what
\* the program left; what follows a loop with no condition is never
\* executed, so that such a loop ends only through a return.
C17_Loops ==
    /\ (AtEpilogue /\ Meaning.ok /\ HasKind("NodeFor")) =>
            SameValue(Meaning) /\ SameMemory(Meaning)
    /\ cpu.state = "run" =>
            ~EndlessEnd(cpu.pc) /\ ~EndlessEnd(cpu.pc - 1)
    /\ (AtEpilogue /\ EndlessEnds # {} /\ Meaning.ok) => Meaning.ret
    /\ Yields(<<"int", "i", "=", "0", ";", "int", "j", "=", "0", ";", "for",
                "(", "i", "=", "0", ";", "i", "<=", "2", ";", "i", "=", "i",
                "+", "1", ")", "j", "=", "i", "+", "j", ";", "return", "j",
                ";">>, 3)
    /\ Yields(<<"for", "(", ";", ";", ")", "{", "return", "3", ";", "}",
                "return", "5", ";">>, 3)
    /\ Yields(<<"int", "i", "=", "0", ";", "while", "(", "i", "<", "2", ")",
                "i", "=", "i", "+", "1", ";", "return", "i", ";">>, 2)
    /\ Yields(<<"int", "i", "=", "0", ";", "for", "(", ";", "i", "<", "2", ";",
                "i", "=", "i", "+", "1", ")", "{", ";", "}", "return", "5",
                ";">>, 5)
    /\ Yields(<<"int", "a", ";", "for", "(", "a", "=", "3", ";", ";", "a", "=",
                "a", "-", "1", ")", "if", "(", "a", "==", "1", ")", "return",
                "2", "*", "a", ";">>, 2)
    /\ Yields(<<"int", "i", "=", "0", ",", "n", "=", "0", ";", "while", "(",
                "(", "n", "=", "n", "+", "1", ")", "<", "3", ")", "i", "=", "i",
                "+", "2", ";", "return", "i", "*", "n", ";">>, 12)
    /\ Ended(<<"int", "i", "=", "5", ";", "while", "(", "0", ")", "i", "=", "1",
               ";", "i", ";">>) => Holding("i", 5) /\ cpu.rax = 5
    /\ Ended(<<"int", "i", "=", "0", ";", "for", "(", ";", "i", "<", "2", ";",
               ")", "i", "=", "i", "+", "1", ";">>) =>
            Holding("i", 2) /\ cpu.rax = 0

\* a loop whose condition has an assignment went round twice and was left
C17_Witness ==
    /\ Ended(<<"int", "i", "=", "0", ",", "n", "=", "0", ";", "while", "(",
               "(", "n", "=", "n", "+", "1", ")", "<", "3", ")", "i", "=", "i",
               "+", "2", ";", "return", "i", "*", "n", ";">>)
    /\ Meaning.ok
    /\ Holding("i", 4)
    /\ Holding("n", 3)
    /\ cpu.rax = 12

VarNodes == {n \in ProgramNodes : n.kind = "NodeVar"}

RECURSIVE DeclPrefix(_)
\* the tokens up to the i-th can only be the beginning of a declarator:
\* "int" or ",", and then "*"s
DeclPrefix(i) ==
    /\ i >= 1
    /\ \/ tokens[i].kind = "INT"
       \/ tokens[i].lexeme = ","
       \/ tokens[i].lexeme = "*" /\ DeclPrefix(i - 1)

\* the identifiers of the source that a declarator declares
DeclTokens ==
    {t \in 2..Len(tokens) : tokens[t].kind = "IDENT" /\ DeclPrefix(t - 1)}

\* the declarations of the name of the token t between the tokens a and b
Redeclared(t, a, b) ==
    {d \in DeclTokens : tokens[d].lexeme = tokens[t].lexeme /\ a < d /\ d <= b}

FellThrough == AtEpilogue /\ Meaning.ok /\ ~Meaning.ret

\* C19 as stated: without a return, main returns the value of the last
\* expression evaluated, which is the value that the last executed
\* expression statement left in RAX.
C19_LastStatement ==
    /\ FellThrough => SameValue(Meaning)
    /\ (FellThrough /\ Meaning.es.done /\ Meaning.es.known) =>
            cpu.rax = Meaning.es.v
    /\ Yields(<<"0", "==", "1", ";">>, 0)
    /\ Yields(<<"42", "==", "42", ";">>, 1)

\* C19, amended: without a return, main returns the value of the last
\* expression evaluated: that of the last executed expression statement
\* in a program with no if, for or while, and otherwise possibly that of
\* a condition evaluated after it, as the 0 of 1; if (0) 2; and of a loop
\* that was left.
C19_LastExpression ==
    /\ FellThrough => SameValue(Meaning)
    /\ (/\ FellThrough
        /\ ~HasKind("NodeIf")
        /\ ~HasKind("NodeFor")
        /\ Meaning.es.done
        /\ Meaning.es.known) => cpu.rax = Meaning.es.v
    /\ Yields(<<"0", "==", "1", ";">>, 0)
    /\ Yields(<<"42", "==", "42", ";">>, 1)
    /\ Yields(<<"7", ";", ";">>, 7)
    /\ Yields(<<"3", ";", "{", "}">>, 3)
    /\ Yields(<<"1", ";", "if", "(", "0", ")", "2", ";">>, 0)
    /\ Yields(<<"int", "i", "=", "0", ";", "for", "(", ";", "i", "<", "2", ";",
                ")", "i", "=", "i", "+", "1", ";">>, 0)
    /\ Yields(<<"int", "i", "=", "5", ";", "while", "(", "0", ")", "i", "=",
                "1", ";", "i", ";">>, 5)

\* 42==42; came to the epilogue with 1 in RAX and returned it
C19_Witness ==
    /\ cpu.state = "returned"
    /\ source = Text(<<"42", "==", "42", ";">>)
    /\ ~Meaning.ret
    /\ Meaning.es.done
    /\ Meaning.v = 1
    /\ ExitStatus(cpu) = 1

\* the operators that the grammar does not accept
Unsupported ==
    {<<"+", "+">>, <<"+", "=">>, <<"-", ">">>, <<"-", "-">>, <<"-", "=">>,
     <<"*", "=">>, <<"/", "=">>, <<"<", "<">>, <<"<", "<", "=">>,
     <<">", ">">>, <<">", ">", "=">>, <<"&", "&">>, <<"&", "=">>}

\* the bytes of op are in the source from position q (0-based)
StartsAt(q, op) ==
    /\ q + Len(op) <= Len(source)
    /\ \A k \in 1..Len(op) : source[q + k] = op[k]

AtUnsupported == pc = "tokenize" /\ \E op \in Unsupported : StartsAt(p, op)

\* C20: with the scan position at the start of an operator that the
\* grammar does not accept, the step of the tokenizer moves the position
\* past its bytes, makes no token, and tokenize goes on.
C20_ConsumesUnsupported ==
    [][AtUnsupported =>
          /\ p' >= p + 2
          /\ tokens' = tokens
          /\ pc' = "tokenize"]_vars

\* q is the first of the last two bytes, and they are ==, !=, <= or >=
LastPair(q) ==
    /\ q + 2 = Len(source)
    /\ source[q + 1] \in {"=", "!", "<", ">"}
    /\ source[q + 2] = "="

Lookaheads == {<<>>, <<"=">>, <<"<", "=">>, <<">", "=">>}

\* C21 as stated: a ==, !=, <= or >= whose second byte is the last byte of
\* the source is not recognised by lookahead as a two-byte operator, and
\* no token is made of it.
C21_LastByteUnmatched ==
    /\ \A q \in 0..(Len(source) - 1) :
         LastPair(q) => lookahead(q, <<"=">>) # 2
    /\ \A t \in 1..Len(tokens) :
         LastPair(tokens[t].begin) => tokens[t].length # 2

\* C21, amended: lookahead returns -1 exactly when the last byte it would
\* compare lies outside the source (p+n >= len(source)), so that only an
\* operator byte that is itself the last byte cannot begin a longer
\* operator; a ==, !=, <= or >= whose second byte is the last byte of the
\* source is recognised (lookahead gives 2), and the token that begins
\* there is the two-byte operator.
C21_LastByteMatches ==
    /\ \A q \in 0..(Len(source) - 1) :
         /\ \A e \in Lookaheads :
              (lookahead(q, e) = -1) <=> (q + Len(e) >= Len(source))
         /\ LastPair(q) => lookahead(q, <<"=">>) = 2
         /\ q + 1 = Len(source) => lookahead(q, <<"=">>) = -1
    /\ \A t \in 1..Len(tokens) :
         LastPair(tokens[t].begin) =>
             /\ tokens[t].length = 2
             /\ tokens[t].kind =
                    TwoByteKind(source[Len(source) - 1], source[Len(source)])

\* 1== was tokenized: the == at its end is one token
C21_Witness ==
    /\ source = <<"1", "=", "=">>
    /\ p = Len(source)
    /\ Len(tokens) >= 2
    /\ tokens[2].kind = "EQL"
    /\ tokens[2].begin = 1
    /\ tokens[2].length = 2

\* the typed operands that the program of this state offers
Operands ==
    {n \in ProgramNodes :
        n.kind \in {"NodeNum", "NodeVar", "NodeAddr", "NodeDeref"}
        /\ n.tp # NoType}

\* x * 8, made at the token t
Scaled(x, t) == NewBinary("NodeMul", x, NewNumber(8, t), t)

\* the same node, whatever types it and its operands carry
Untyped(n) ==
    IF n.kind = "nil" THEN n
    ELSE [n EXCEPT !.tp = NoType,
                   !.lhs = IF @.kind = "nil" THEN @ ELSE [@ EXCEPT !.tp = NoType],
                   !.rhs = IF @.kind = "nil" THEN @ ELSE [@ EXCEPT !.tp = NoType]]

\* the type that addtype gives to the node that NewAdd or NewSub returned
TypeOf(r) == addtype(r.node, locals).node.tp

\* the table of NewAdd for the operands l and r at the token t
AddTable(l, r, t) ==
    LET n == NewAddTyped(Typed(l), Typed(r), t) IN
    /\ (isint(l.tp) /\ isint(r.tp)) =>
          /\ n.err = NoErr
          /\ n.node = NewBinary("NodeAdd", l, r, t)
          /\ isint(TypeOf(n))
    /\ (HasBase(l.tp) /\ isint(r.tp)) =>
          /\ n.err = NoErr
          /\ n.node = NewBinary("NodeAdd", l, Scaled(r, t), t)
          /\ TypeOf(n) = l.tp
    /\ (isint(l.tp) /\ HasBase(r.tp)) =>
          /\ n.err = NoErr
          /\ n.node = NewBinary("NodeAdd", r, Scaled(l, t), t)
          /\ TypeOf(n) = r.tp

\* the table of NewSub
SubTable(l, r, t) ==
    LET n == NewSubTyped(Typed(l), Typed(r), t, locals) IN
    /\ (isint(l.tp) /\ isint(r.tp)) =>
          /\ n.err = NoErr
          /\ n.node = NewBinary("NodeSub", l, r, t)
          /\ isint(TypeOf(n))
    /\ (HasBase(l.tp) /\ isint(r.tp)) =>
          /\ n.err = NoErr
          /\ n.node.kind = "NodeSub"
          /\ n.node.lhs = l
          /\ Untyped(n.node.rhs) = Untyped(Scaled(r, t))
          /\ n.node.rhs.lhs = r
          /\ n.node.tp = l.tp
          /\ TypeOf(n) = l.tp
    /\ (HasBase(l.tp) /\ HasBase(r.tp)) =>
          /\ n.err = NoErr
          /\ n.node.kind = "NodeDiv"
          /\ n.node.rhs = NewNumber(8, t)
          /\ Untyped(n.node.lhs) = Untyped(NewBinary("NodeSub", l, r, t))
          /\ n.node.lhs.lhs = l
          /\ n.node.lhs.rhs = r
          /\ isint(n.node.lhs.tp)
          /\ isint(TypeOf(n))

\* n is x * 8 with x an int
IsScaled(n) ==
    /\ n.kind = "NodeMul"
    /\ isint(n.lhs.tp)
    /\ n.rhs.kind = "NodeNum"
    /\ n.rhs.value = 8

\* the operator tokens of the source
TokensOf(kind) == {t \in 1..Len(tokens) : tokens[t].kind = kind}

\* C22: NewAdd and NewSub scale by 8 by the types of the operands: int and
\* int give the plain node, ptr + int gives ADD(ptr, MUL(int, 8)), int + ptr
\* is swapped to the same, ptr - int gives SUB(ptr, MUL(int, 8)), each with
\* the type of the pointer, and ptr - ptr gives DIV(SUB(lhs, rhs), 8) of
\* type int; so are the nodes of every parsed program.
C22_PointerScaling ==
    cpu.state = "off" =>
        /\ \A l, r \in Operands :
             /\ \A t \in TokensOf("ADD") : AddTable(l, r, t)
             /\ \A t \in TokensOf("SUB") : SubTable(l, r, t)
        /\ \A n \in ProgramNodes :
             /\ (n.kind \in {"NodeAdd", "NodeSub"} /\ n.tp # NoType) =>
                   \/ isint(n.lhs.tp) /\ isint(n.rhs.tp) /\ isint(n.tp)
                   \/ HasBase(n.lhs.tp) /\ IsScaled(n.rhs) /\ n.tp = n.lhs.tp
                   \/ /\ n.kind = "NodeSub"
                      /\ HasBase(n.lhs.tp)
                      /\ HasBase(n.rhs.tp)
                      /\ isint(n.tp)
                      /\ \E d \in ProgramNodes :
                           /\ d.kind = "NodeDiv"
                           /\ d.lhs = n
                           /\ d.rhs.kind = "NodeNum"
                           /\ d.rhs.value = 8
                           /\ isint(d.tp)
        /\ (source = Text(Declared \o <<"1", "+", "p", "-", "2", ";">>)
            /\ Len(body) = 2) =>
              /\ body[2].lhs.kind = "NodeSub"
              /\ body[2].lhs.tp = ptrto(tpint)
              /\ IsScaled(body[2].lhs.rhs)
              /\ body[2].lhs.rhs.lhs.value = 2
              /\ body[2].lhs.lhs.kind = "NodeAdd"
              /\ body[2].lhs.lhs.lhs.kind = "NodeVar"
              /\ body[2].lhs.lhs.lhs.tp = ptrto(tpint)
              /\ IsScaled(body[2].lhs.lhs.rhs)
              /\ body[2].lhs.lhs.rhs.lhs.value = 1

\* a - (p - p) was parsed: the difference of two pointers, divided by 8
C22_Witness ==
    /\ pc = "gen"
    /\ source = Text(Declared \o <<"a", "-", "(", "p", "-", "p", ")", ";">>)
    /\ Len(body) = 2
    /\ body[2].lhs.kind = "NodeSub"
    /\ body[2].lhs.rhs.kind = "NodeDiv"
    /\ body[2].lhs.rhs.lhs.kind = "NodeSub"
    /\ HasBase(body[2].lhs.rhs.lhs.lhs.tp)
    /\ isint(body[2].lhs.rhs.tp)

\* the run of the source ws ended at its only token of the given kind, with
\* the diagnostic msg, exit code 1, nothing emitted, and no statement
\* after the declaration
StoppedAt(ws, kind, msg) ==
    (source = Text(Declared \o ws) /\ pc = "exited") =>
        /\ exitCode = 1
        /\ Len(stderr) = 1
        /\ stderr[1].msg = msg
        /\ \E t \in TokensOf(kind) : DiagAt(stderr[1], t)
        /\ stdout = <<>>
        /\ Len(body) = 1
        /\ cpu.state = "off"

\* NewAdd of two pointers and NewSub of an int and a pointer return no
\* node, but the diagnostic msg at the token of the operator
Refused(msg) ==
    \A l, r \in Operands :
        /\ \A t \in TokensOf("ADD") :
             (HasBase(l.tp) /\ HasBase(r.tp)) =>
                 NewAddTyped(Typed(l), Typed(r), t) = TypeErr(ErrAt(msg, t))
        /\ \A t \in TokensOf("SUB") :
             (isint(l.tp) /\ HasBase(r.tp)) =>
                 NewSubTyped(Typed(l), Typed(r), t, locals) =
                     TypeErr(ErrAt(msg, t))

\* C23: ptr + ptr and int - ptr are fatal: the compiler stops in the
\* parser with exit code 1 and the diagnostic "invalid operands" at the
\* token of the operator, and builds no node for the expression.
C23_InvalidOperands ==
    /\ cpu.state = "off" => Refused("invalid operands")
    /\ StoppedAt(<<"p", "+", "p", ";">>, "ADD", "invalid operands")
    /\ StoppedAt(<<"1", "-", "p", ";">>, "SUB", "invalid operands")
    /\ \A k \in 1..Len(stderr) : stderr[k].msg # "invalid opreands"

\* parser.go:213-236  the node kinds
NodeKinds ==
    {"NodeAdd", "NodeSub", "NodeMul", "NodeDiv", "NodeEql", "NodeNeq",
     "NodeLss", "NodeLeq", "NodeAsg", "NodeNeg", "NodeAddr", "NodeDeref",
     "NodeVar", "NodeNum", "NodeExprStmt", "NodeReturn", "NodeBlock",
     "NodeIf", "NodeFor"}

\* the nodes built at a ">" or ">=" of the source
GreaterNodes == {n \in ProgramNodes : tokens[n.token].lexeme \in {">", ">="}}

\* x > y or x >= y in C
Greater(lexeme, x, y) == IF lexeme = ">" THEN Bit(x > y) ELSE Bit(x >= y)

\* C24: a > b is built as NodeLss(b, a) and a >= b as NodeLeq(b, a): no
\* node has a kind of its own for them, the operand that the source has on
\* the left of the operator is the rhs of the node, and for integer
\* operands the node has the value of the comparison as written, also in
\* a chain, which groups to the left; the machine returns that value.
C24_GreaterDesugared ==
    /\ cpu.state = "off" =>
         /\ \A n \in ProgramNodes : n.kind \in NodeKinds
         /\ \A n \in GreaterNodes :
              /\ n.kind = IF tokens[n.token].lexeme = ">" THEN "NodeLss"
                          ELSE "NodeLeq"
              /\ Shape(n.rhs).ok
              /\ Shape(n.lhs).ok
              /\ Shape(n.rhs).b + 1 = n.token
              /\ Shape(n.lhs).a = n.token + 1
              /\ (Arithmetic(n) /\ CValue(n).defined) =>
                    CValue(n).v = Greater(tokens[n.token].lexeme,
                                          CValue(n.rhs).v, CValue(n.lhs).v)
    /\ Yields(<<"return", "1", ">", "0", ";">>, 1)
    /\ Yields(<<"return", "1", ">", "1", ";">>, 0)
    /\ Yields(<<"return", "1", ">", "2", ";">>, 0)
    /\ Yields(<<"return", "1", ">=", "0", ";">>, 1)
    /\ Yields(<<"return", "1", ">=", "1", ";">>, 1)
    /\ Yields(<<"return", "1", ">=", "2", ";">>, 0)
    /\ Yields(<<"return", "3", ">", "2", ">", "1", ";">>, 0)
    /\ Yields(<<"return", "1", ">", "0", ">=", "1", ";">>, 1)
    /\ Yields(<<"return", "0", ">=", "2", ">=", "0", ";">>, 1)
    /\ Yields(<<"return", "1", "<", "2", ">", "0", ";">>, 1)

\* 3 > 2 > 1 was built as (3 > 2) > 1, which is 1 > 1, and returned 0
C24_Witness ==
    /\ cpu.state = "returned"
    /\ source = Text(<<"return", "3", ">", "2", ">", "1", ";">>)
    /\ body[1].lhs.kind = "NodeLss"
    /\ body[1].lhs.lhs.value = 1
    /\ body[1].lhs.rhs.kind = "NodeLss"
    /\ body[1].lhs.rhs.lhs.value = 2
    /\ body[1].lhs.rhs.rhs.value = 3
    /\ ExitStatus(cpu) = 0

\* the Object that the declarator at the token d made: Objects are
\* numbered as they are made
DeclaredBy(d) == Cardinality({e \in DeclTokens : e <= d})

\* the declaration of its name that the use at the token t follows most
\* closely
LatestDecl(t) ==
    LET ds == {d \in DeclTokens : tokens[d].lexeme = tokens[t].lexeme /\ d <= t}
    IN  CHOOSE d \in ds : \A e \in ds : e <= d

\* the whole source was parsed
ParsedAll == ParseReturned /\ cpu.state = "off"

\* C25 as stated: no two Objects of the locals list have the same name, and
\* a second declaration of a name refers to the Object of the first, as in
\* int a; int a; which has one Object.
C25_UniqueNames ==
    /\ \A i, j \in 1..Len(locals) :
         locals[i].name = locals[j].name => i = j
    /\ (source = Text(<<"int", "a", ";", "int", "a", ";">>) /\ pc = "gen") =>
         Len(locals) = 1

\* C25, amended: names need not be unique. Every declarator makes a new
\* Object at the head of the locals list, also for a name that has one
\* (int a; int a; has two Objects named a), and findVar returns the first
\* match from the head: an identifier refers to the Object of the latest
\* declaration of its name before it, so that the last-declared Object
\* wins; int a=1; int a=2; return a; yields 2.
C25_LatestWins ==
    /\ ParsedAll =>
         /\ Len(locals) = Cardinality(DeclTokens)
         /\ \A k \in 1..Len(locals) : locals[k].id = Len(locals) - k + 1
         /\ \A d \in DeclTokens :
              Object(DeclaredBy(d), locals).name = tokens[d].lexeme
         /\ \A n \in VarNodes : n.variable = DeclaredBy(LatestDecl(n.token))
    /\ (source = Text(<<"int", "a", ";", "int", "a", ";">>) /\ pc = "gen") =>
         /\ Len(locals) = 2
         /\ locals[1].name = "a"
         /\ locals[2].name = "a"
    /\ Yields(<<"int", "a", "=", "1", ";", "int", "a", "=", "2", ";",
                "return", "a", ";">>, 2)
    /\ Yields(<<"int", "a", "=", "1", ";", "int", "b", "=", "a", ";", "int",
                "a", "=", "5", ";", "return", "a", "+", "b", ";">>, 6)
    /\ Yields(<<"{", "int", "a", "=", "1", ";", "{", "int", "a", "=", "2", ";",
                "}", "return", "a", ";", "}">>, 2)
    /\ Ended(<<"int", "a", "=", "1", ";", "int", "a", "=", "2", ";", "return",
               "a", ";">>) =>
         /\ {Slot(1), Slot(2)} \subseteq DOMAIN cpu.mem
         /\ cpu.mem[Slot(1)] = 1
         /\ cpu.mem[Slot(2)] = 2

\* int a=1; int a=2; return a; returned 2, with two Objects named a
C25_Witness ==
    /\ cpu.state = "returned"
    /\ source = Text(<<"int", "a", "=", "1", ";", "int", "a", "=", "2", ";",
                       "return", "a", ";">>)
    /\ Len(locals) = 2
    /\ locals[1].name = locals[2].name
    /\ {n.variable : n \in VarNodes} = {1, 2}
    /\ ExitStatus(cpu) = 2

\* RBP in the frame of main
FrameRbp == StackTop - 16

\* the word at a(%rbp) holds v
WordAt(a, v) ==
    FrameRbp + a \in DOMAIN cpu.mem /\ cpu.mem[FrameRbp + a] = v

\* C26 as stated: the locals list is in the order of declaration and the
\* layout gives -8 to the local declared first, -16 to the second, and so
\* on.
C26_DeclarationOrder ==
    Laid =>
        \A k \in 1..Len(locals) :
            /\ locals[k].id = k
            /\ offsets[k] = -8 * k

\* C26, amended: the locals list is in the reverse of the order of
\* declaration, the newest Object at its head, and the layout walks it from
\* the head: of n locals the one declared last receives -8, the one before
\* it -16, and the one declared first -8n.
C26_ReverseOrder ==
    /\ Laid =>
         /\ DOMAIN offsets = 1..Len(locals)
         /\ \A k \in 1..Len(locals) :
              /\ locals[k].id = Len(locals) - k + 1
              /\ offsets[locals[k].id] = -8 * k
         /\ \A id \in 1..Len(locals) :
              offsets[id] = -8 * (Len(locals) - id + 1)
    /\ Yields(<<"int", "x", "=", "3", ",", "y", "=", "5", ";", "return", "*",
                "(", "&", "x", "+", "1", ")", ";">>, 5)
    /\ Yields(<<"int", "x", "=", "3", ";", "int", "y", "=", "5", ";", "return",
                "*", "(", "&", "y", "-", "1", ")", ";">>, 3)
    /\ Yields(<<"int", "a", "=", "1", ";", "int", "*", "p", "=", "&", "a", ";",
                "int", "b", "=", "7", ";", "return", "*", "(", "p", "+", "2",
                ")", ";">>, 7)
    /\ Ended(<<"int", "a", "=", "1", ",", "b", "=", "2", ",", "c", "=", "3",
               ";", "return", "a", ";">>) =>
         /\ WordAt(-8, 3)
         /\ WordAt(-16, 2)
         /\ WordAt(-24, 1)

\* int a=1, b=2, c=3; was run: c, declared last, is at -8(%rbp)
C26_Witness ==
    /\ Ended(<<"int", "a", "=", "1", ",", "b", "=", "2", ",", "c", "=", "3",
               ";", "return", "a", ";">>)
    /\ locals[1].name = "c"
    /\ offsets[locals[1].id] = -8
    /\ locals[3].name = "a"
    /\ offsets[locals[3].id] = -24
    /\ WordAt(-8, 3)

\* the "int"s of the source
IntTokens == TokensOf("INT")

RECURSIVE AfterStars(_)
\* the first token from the i-th on that is no "*"
AfterStars(i) == IF tokens[i].lexeme = "*" THEN AfterStars(i + 1) ELSE i

\* C27 as stated: int; is a declaration with no declarator: it is accepted,
\* makes no Object, and the next statement is parsed.
C27_EmptyDeclaration ==
    /\ (source = Text(<<"int", ";">>) /\ pc = "exited") =>
         exitCode = 0 /\ locals = <<>>
    /\ (source = Text(<<"int", ";", "return", "1", ";">>) /\ pc = "exited") =>
         exitCode = 0 /\ locals = <<>> /\ Len(body) = 2
    /\ Yields(<<"int", ";", "return", "1", ";">>, 1)

\* C27, amended: a declaration has at least one declarator. After "int"
\* (and after every "," of a declaration) the parser calls declarator,
\* which wants an identifier after the "*"s: int; ends the run with
\* "expected a variable name" at the ";" and exit code 1, no Object is
\* made for it, nothing is emitted and no statement after it is parsed.
C27_DeclaratorRequired ==
    /\ Rejected(Text(<<"int", ";">>), "expected a variable name", 4, 1)
    /\ Rejected(Text(<<"int", ";", "return", "1", ";">>),
                "expected a variable name", 4, 1)
    /\ Rejected(Text(<<"int", "a", ";", "int", ";", "return", "a", ";">>),
                "expected a variable name", 12, 1)
    /\ Rejected(Text(<<"int", "*", ";">>), "expected a variable name", 6, 1)
    /\ Rejected(Text(<<"int", "a", ",", ";">>), "expected a variable name", 8, 1)
    /\ (source = Text(<<"int", ";", "return", "1", ";">>) /\ pc = "exited") =>
         locals = <<>> /\ body = <<>> /\ stdout = <<>> /\ cpu.state = "off"
    /\ (source = Text(<<"int", "a", ";", "int", ";", "return", "a", ";">>)
        /\ pc = "exited") =>
         Len(locals) = 1 /\ Len(body) = 1 /\ stdout = <<>>
    /\ ParsedAll =>
         \A t \in IntTokens : AfterStars(t + 1) \in DeclTokens
    /\ \A k \in 1..Len(stderr) :
         stderr[k].msg = "expected a variable name" =>
             \E t \in 2..Len(tokens) :
                 /\ DiagAt(stderr[k], t)
                 /\ tokens[t].kind # "IDENT"
                 /\ DeclPrefix(t - 1)

\* int a; int; return a; stopped at the ";" of int; with the Object of a
C27_Witness ==
    /\ source = Text(<<"int", "a", ";", "int", ";", "return", "a", ";">>)
    /\ pc = "exited"
    /\ exitCode = 1
    /\ stderr = <<Diag("expected a variable name", 12, 1)>>
    /\ LocalNames = {"a"}

\* the lines of stdout that load the number v
LoadsOf(v) ==
    {i \in 1..Len(stdout) : stdout[i] = InsA("mov $a, %rax", v)}

\* the source is the program ws of Ordered
IsOrdered(ws) == source = Text(ws \o <<";">>)

\* C28: the emitted code fixes the order of evaluation. The lines of a
\* binary operator are those of its right operand, a push, those of its
\* left operand, a pop and the operation; the lines of an assignment are
\* those of the address of its left side, a push, those of its right side,
\* a pop and the store. In (a=1)+(a=2) the store of 2 is executed before
\* the store of 1, which leaves 1 in a.
C28_RightOperandFirst ==
    /\ (Laid /\ cpu.state = "off") =>
         \A n \in ProgramNodes :
             /\ (n.kind \in ArithKinds /\ genExpr(n).err = NoErr) =>
                   genExpr(n).out =
                       genExpr(n.rhs).out \o <<push>> \o genExpr(n.lhs).out
                       \o <<pop("%rdi")>> \o BinaryOp(n.kind)
             /\ (n.kind = "NodeAsg" /\ genExpr(n).err = NoErr) =>
                   genExpr(n).out =
                       genAddr(n.lhs).out \o <<push>> \o genExpr(n.rhs).out
                       \o <<pop("%rdi"), Ins("mov %rax, (%rdi)")>>
    /\ (IsOrdered(<<"int", "a", ";", "return", "(", "a", "=", "1", ")", "+",
                    "(", "a", "=", "2", ")">>) /\ pc = "exited") =>
         \A i \in LoadsOf(1) : \A j \in LoadsOf(2) : j < i
    /\ (IsOrdered(<<"int", "a", ";", "return", "(", "a", "=", "1", ")", "+",
                    "(", "a", "=", "2", ")">>) /\ AtEpilogue) =>
         Holding("a", 1) /\ cpu.rax = 3
    /\ (IsOrdered(<<"int", "a", ";", "return", "(", "a", "=", "1", ")", "+",
                    "(", "a", "=", "2", ")">>) /\ cpu.state = "run"
        /\ Holding("a", 2)) => \A i \in LoadsOf(1) : cpu.pc <= i + 2
    /\ (IsOrdered(<<"int", "a", "=", "1", ";", "return", "a", "+", "(", "a",
                    "=", "5", ")">>) /\ AtEpilogue) => cpu.rax = 10
    /\ (IsOrdered(<<"int", "a", "=", "1", ";", "return", "(", "a", "=", "5",
                    ")", "+", "a">>) /\ AtEpilogue) => cpu.rax = 6
    /\ (IsOrdered(<<"int", "a", "=", "0", ",", "b", "=", "0", ",", "*", "p",
                    "=", "&", "a", ";", "*", "p", "=", "(", "p", "=", "&", "b",
                    ")", "!=", "0", ";", "return", "a">>) /\ AtEpilogue) =>
         cpu.rax = 1 /\ Holding("a", 1) /\ Holding("b", 0)

\* (a=1)+(a=2) was run: 1 was stored last
C28_Witness ==
    /\ IsOrdered(<<"int", "a", ";", "return", "(", "a", "=", "1", ")", "+",
                   "(", "a", "=", "2", ")">>)
    /\ AtEpilogue
    /\ Holding("a", 1)
    /\ cpu.rax = 3

\* tokenize has returned: parse has its first token
TokenizeReturned == token >= 1

\* C29: when tokenize has returned, the tokens are in the order of the
\* source: the begin offsets increase strictly, no token reaches into the
\* next one, the lexeme of each is source[begin : begin+length], and one
\* token only is the end token: the last, at offset len(source), of
\* length 0.
C29_TokensInOrder ==
    TokenizeReturned =>
        /\ tokens # <<>>
        /\ \A t \in 1..(Len(tokens) - 1) :
             /\ tokens[t].begin < tokens[t + 1].begin
             /\ tokens[t].begin + tokens[t].length <= tokens[t + 1].begin
             /\ tokens[t].length >= 1
             /\ tokens[t].kind # "EOF"
        /\ \A t \in 1..Len(tokens) :
             /\ tokens[t].begin >= 0
             /\ tokens[t].begin + tokens[t].length <= Len(source)
             /\ tokens[t].lexeme =
                    Cat(SubSeq(source, tokens[t].begin + 1,
                               tokens[t].begin + tokens[t].length))
        /\ tokens[Len(tokens)].kind = "EOF"
        /\ tokens[Len(tokens)].begin = Len(source)
        /\ tokens[Len(tokens)].length = 0
        /\ \A q \in 1..Len(source) :
             ~IsSpace(source[q]) =>
                 \E t \in 1..Len(tokens) :
                     /\ tokens[t].begin < q
                     /\ q <= tokens[t].begin + tokens[t].length

\* a source of two tokens with a blank between them was tokenized
C29_Witness ==
    /\ TokenizeReturned
    /\ source = <<"1", " ", "a">>
    /\ Len(tokens) = 3
    /\ tokens[2].kind = "IDENT"
    /\ tokens[2].begin = 2
    /\ tokens[3].kind = "EOF"
    /\ tokens[3].begin = 3

\* the compiler stopped before it ended: a diagnostic and exit code 1, or
\* the panic of the runtime and exit code 2
Stopped == pc = "exited" /\ exitCode # 0

\* the diagnostics of tokenize, of parse and of addtype
FrontEndErrors ==
    {"invalid token", "value out of range", "expected an expression",
     "expected an identifier", "expected a variable name",
     "undefined variable", "invalid opreands", "invalid pointer dereference"}
    \cup {ExpectedMsg(x) : x \in {";", ")", "(", "}"}}

\* C30: tokenize, parse with addtype, and gen run one after the other, so
\* nothing is on stdout before the whole source was tokenized, parsed and
\* typed.  When the compiler stops on an error of tokenize, parse or
\* addtype, stdout is empty; the one error after which stdout holds a part
\* of the assembly is "not addressable" of the generator.
C30_StagesInOrder ==
    /\ stdout # <<>> =>
          /\ ParseReturned
          /\ genpos >= 1
          /\ tokens # <<>>
          /\ tokens[Len(tokens)].kind = "EOF"
          /\ token = Len(tokens)
    /\ pc \in {"tokenize", "parse"} => stdout = <<>> /\ genpos = 0
    /\ (pc = "tokenize" /\ stdout = <<>>) => body = <<>>
    /\ Stopped =>
          /\ stderr # <<>>
          /\ IF stderr[Len(stderr)].msg = "not addressable"
             THEN /\ genpos >= 1
                  /\ Len(stdout) >= 5
                  /\ stdout[Len(stdout)] # Ins("ret")
             ELSE stdout = <<>> /\ genpos = 0

\* parse stopped on an error in a later statement, with nothing written
C30_Witness ==
    /\ Stopped
    /\ stderr # <<>>
    /\ stderr[1].msg \in FrontEndErrors
    /\ body # <<>>
    /\ stdout = <<>>

====
